---- MODULE Spec2Model ----
(***************************************************************************)
(* A model of wct's terminal-session layout compiler and executor          *)
(* (services/tmux) and of its VS Code workspace-state migrator             *)
(* (services/vscode-workspace).                                            *)
(***************************************************************************)
EXTENDS Integers, Sequences, FiniteSets, TLC

\* The JavaScript value undefined (an optional field that is absent).
Undefined == "<undefined>"

\* JavaScript truthiness of an optional string: undefined and "" are falsy.
Truthy(s) == s # Undefined /\ s # ""

\* An optional value that is not a string (a list, a number, an object):
\* None when absent (undefined), Some(x) when present.
None == <<>>
Some(x) == <<x>>
IsSome(o) == Len(o) = 1
Get(o) == o[1]
\* o ?? d
OrElse(o, d) == IF IsSome(o) THEN Get(o) ELSE d

(***************************************************************************)
(* Bounds of the model.                                                    *)
(***************************************************************************)
\* Windows declared in one session plan.
MaxWindows == 2
\* Panes declared in one session plan, all its windows together.
MaxPlanPanes == 3
\* Calls of createSession in one run of the session executor.
MaxCalls == 2
\* Editors in one editor group of the layout tree.
MaxEditors == 3
\* Runs of syncWorkspaceState for one pair of folders.
MaxRuns == 2
\* Editors in all the groups of the layout trees of one store.
MaxStoreEditors == 3
\* The most characters the values of a store's rows hold, all together.
MaxTextLen == 6
\* The most chat sessions the chat session index lists.
MaxSessions == 2

\* Calls of computeWorkspaceId on one host.
MaxIdCalls == 2

VARIABLES
    \* ---- session compiler (buildWindowsPaneCommands)
    sessionName,    \* the session's name
    windows,        \* the declared windows: TmuxWindow[]
    env,            \* the optional WctEnv, as its Object.entries
    commands,       \* the compiled plan: TmuxCommand[]
    pc,             \* where the compiler or createSession is
    \* ---- session executor (createSession, executeCommands) and tmux
    server,         \* tmux: session name -> the commands applied to it
    issued,         \* the commands this createSession has started, in order
    next,           \* executeCommands: 1-based position of the loop
    running,        \* a tmux command has been started and is awaited
    thrown,         \* the error text of the tmux command that failed
    result,         \* the optional CreateSessionResult of the last call
    calls,          \* createSession calls made so far
    checked,        \* the targets passed to tmux has-session, in order
    \* ---- layout tree editor (filterEditorsInState)
    files,          \* the paths that exist on disk
    editorState,    \* the parsed editorpart.state, as read from the store
    prunedState,    \* the same object after filterEditorsInState
    totalRemoved,   \* what filterEditorsInState returned
    ppc,            \* where the pruning is: "idle" | "open" | "filtered"
    \* ---- workspace state migration (syncWorkspaceState)
    platform,       \* os.platform()
    storageOverride,\* is WCT_VSCODE_STORAGE_PATH set
    folders,        \* the folders that exist
    storage,        \* workspace id -> its directory under the storage root
    spc,            \* where syncWorkspaceState is
    mainWorkspaceId,     \* the local of that name, Undefined before it is set
    worktreeWorkspaceId, \* the local of that name, Undefined before it is set
    syncResult,     \* what the last run returned
    prevResult,     \* what the run before the current one returned
    storageAtStart, \* storage as it was when the current run started
    fsLog,          \* the writes of the current run under the storage root
    runs,           \* the runs started so far
    \* ---- one pass over a state store (ItemTable of state.vscdb)
    table,          \* the store file: can it be queried, and its rows
    tableAtStart,   \* table as it was when the pass started
    tpc,            \* where the pass is: "idle" | "stored" | "returned"
    passResult,     \* the number the pass returned
    updated,        \* the keys the pass wrote or deleted, in order
    \* ---- workspace identity (computeWorkspaceId)
    hostPlatform,   \* os.platform() of the host the ids are computed on
    fsStats,        \* folder path -> the optional stat of the folder
    idCalls,        \* the calls of computeWorkspaceId so far, in order
    \* ---- the open workflow (openCommand)
    options,        \* OpenOptions: existing, base, noIde
    config,         \* the configuration loadConfig returns
    opc,            \* where openCommand is
    steps,          \* the services called so far and how each ended
    logs,           \* the log lines about those services, in order
    openResult      \* the optional CommandResult openCommand returned

tmuxVars == <<sessionName, windows, env, commands, pc>>
sessionVars ==
    <<server, issued, next, running, thrown, result, calls, checked>>
pruneVars == <<files, editorState, prunedState, totalRemoved, ppc>>
syncVars == <<platform, storageOverride, folders, storage, spc,
              mainWorkspaceId, worktreeWorkspaceId, syncResult, prevResult,
              storageAtStart, fsLog, runs>>
storeVars == <<table, tableAtStart, tpc, passResult, updated>>
idVars == <<hostPlatform, fsStats, idCalls>>
openVars == <<options, config, opc, steps, logs, openResult>>
vars ==
    <<tmuxVars, sessionVars, pruneVars, syncVars, storeVars, idVars, openVars>>

\* computeWorkspaceId when it is not in use.
IdIdle ==
    /\ hostPlatform = "linux"
    /\ fsStats = <<>>
    /\ idCalls = <<>>

\* The open workflow when it is not in use.
OpenIdle ==
    /\ options = <<>>
    /\ config = <<>>
    /\ opc = "idle"
    /\ steps = <<>>
    /\ logs = <<>>
    /\ openResult = <<>>

(***************************************************************************)
(* Inputs of the session compiler.                                         *)
(***************************************************************************)
WorkingDir == "/wt"

\* Window names are unique within a plan (spec, data model): window i of a
\* plan is named WindowName(i).
WindowName(i) == "w" \o ToString(i)

\* The command of pane i (1-based here) when it declares a non-empty one.
PaneCommand(i) == "run-p" \o ToString(i - 1)

\* The optional command, split and layout of a window: all absent, or all
\* given.
Styles ==
    { [command |-> Undefined, split |-> Undefined, layout |-> Undefined],
      [command |-> "run-top", split |-> "vertical",
       layout |-> "main-vertical"] }

\* The env of a plan: omitted, an empty object, or two variables.
Envs ==
    { None,
      Some(<<>>),
      Some(<< [key |-> "WCT_BRANCH", value |-> "feat"],
              [key |-> "WCT_PROJECT", value |-> "app"] >>) }

\* The optional pane lists of n panes: no panes is an absent or an empty
\* list. Pane i's command is absent, empty, or its own PaneCommand(i).
PaneLists(n) ==
    IF n = 0
    THEN {None, Some(<<>>)}
    ELSE { Some([i \in 1..n |->
                   [command |-> IF c[i] = "x" THEN PaneCommand(i) ELSE c[i]]]) :
             c \in [1..n -> {Undefined, "", "x"}] }

\* The windows that may be declared as window i of a plan, with k panes.
WindowForms(i, k) ==
    { [name |-> WindowName(i), command |-> st.command, split |-> st.split,
       layout |-> st.layout, panes |-> ps] :
        st \in Styles, ps \in PaneLists(k) }

\* The panes a list of windows declares, all together.
RECURSIVE PlanPanes(_)
PlanPanes(wins) ==
    IF wins = <<>>
    THEN 0
    ELSE Len(OrElse(Head(wins).panes, <<>>)) + PlanPanes(Tail(wins))

\* The sessions tmux may hold: the one createSession is asked for, and one
\* whose name has that name as a prefix.
SessionNames == {"app", "app2"}

\* What a failing tmux command reports (the message of the thrown error).
ErrorTexts == {"exit code 1", "no server running"}

(***************************************************************************)
(* services/tmux: the compiler.                                            *)
(***************************************************************************)
Cmd(type, args) == [type |-> type, args |-> args]

\* buildEnvOptionArgs: "-e", "KEY=VALUE" for each entry, in entry order.
buildEnvOptionArgs(e) ==
    IF ~IsSome(e)
    THEN <<>>
    ELSE LET entries == Get(e)
         IN  [i \in 1..(2 * Len(entries)) |->
                IF i % 2 = 1
                THEN "-e"
                ELSE entries[i \div 2].key \o "=" \o entries[i \div 2].value]

\* Mutant: a pane's send-keys is issued before the split that creates the
\* pane, so it lands in the pane before.
RECURSIVE SplitPanes_KeysBeforeSplit(_, _, _, _, _, _)
SplitPanes_KeysBeforeSplit(windowTarget, workingDir, panes, split, envOptionArgs, i) ==
    IF i >= Len(panes)
    THEN <<>>
    ELSE (IF Truthy(panes[i + 1].command)
          THEN << Cmd("send-keys",
                      <<"-t", windowTarget, panes[i + 1].command, "Enter">>) >>
          ELSE <<>>)
            \o << Cmd("split-window",
                      <<IF split = "horizontal" THEN "-h" ELSE "-v", "-t",
                        windowTarget>> \o envOptionArgs
                         \o <<"-c", workingDir>>) >>
            \o SplitPanes_KeysBeforeSplit(windowTarget, workingDir, panes,
                                          split, envOptionArgs, i + 1)

\* The loop over panes[1..] of buildWindowPaneCommands, from 0-based index i.
RECURSIVE SplitPanes(_, _, _, _, _, _)
SplitPanes(windowTarget, workingDir, panes, split, envOptionArgs, i) ==
    IF i >= Len(panes)
    THEN <<>>
    ELSE LET pane == panes[i + 1]
             splitFlag == IF split = "horizontal" THEN "-h" ELSE "-v"
             splitCmd ==
                 Cmd("split-window",
                     <<splitFlag, "-t", windowTarget>> \o envOptionArgs
                        \o <<"-c", workingDir>>)
             keys ==
                 IF Truthy(pane.command)
                 THEN << Cmd("send-keys",
                             <<"-t", windowTarget, pane.command, "Enter">>) >>
                 ELSE <<>>
         IN  <<splitCmd>> \o keys
                \o SplitPanes(windowTarget, workingDir, panes, split,
                              envOptionArgs, i + 1)

\* The first pane's send-keys, if its command is truthy.
FirstPaneKeys(windowTarget, panes) ==
    IF Truthy(panes[1].command)
    THEN << Cmd("send-keys",
                <<"-t", windowTarget, panes[1].command, "Enter">>) >>
    ELSE <<>>

\* Mutant: the layout is applied to every window that declares panes, also
\* to a window of one pane (panes.length > 0 for panes.length > 1).
buildWindowPaneCommands_LayoutForOnePane(windowTarget, workingDir, window, envOptionArgs) ==
    LET panes == OrElse(window.panes, <<>>)
    IN  IF Len(panes) = 0
        THEN IF Truthy(window.command)
             THEN << Cmd("send-keys",
                         <<"-t", windowTarget, window.command, "Enter">>) >>
             ELSE <<>>
        ELSE FirstPaneKeys(windowTarget, panes)
                \o SplitPanes(windowTarget, workingDir, panes,
                              IF window.split = Undefined
                              THEN "horizontal"
                              ELSE window.split,
                              envOptionArgs, 1)
                \o << Cmd("select-layout",
                          <<"-t", windowTarget,
                            IF window.layout = Undefined
                            THEN "tiled"
                            ELSE window.layout>>) >>

buildWindowPaneCommands(windowTarget, workingDir, window, envOptionArgs) ==
    LET panes == OrElse(window.panes, <<>>)
        split == IF window.split = Undefined THEN "horizontal" ELSE window.split
    IN  IF Len(panes) = 0
        THEN IF Truthy(window.command)
             THEN << Cmd("send-keys",
                         <<"-t", windowTarget, window.command, "Enter">>) >>
             ELSE <<>>
        ELSE LET first == FirstPaneKeys(windowTarget, panes)
                 layout == IF window.layout = Undefined
                           THEN "tiled"
                           ELSE window.layout
                 selectLayout ==
                     IF Len(panes) > 1
                     THEN << Cmd("select-layout",
                                 <<"-t", windowTarget, layout>>) >>
                     ELSE <<>>
             IN  first
                    \o SplitPanes(windowTarget, workingDir, panes, split,
                                  envOptionArgs, 1)
                    \o selectLayout

\* Mutant: only the first env entry gets a set-environment.
SetEnvironment_FirstOnly(name, e) ==
    LET envVars == OrElse(e, <<>>)
    IN  [i \in 1..(IF Len(envVars) = 0 THEN 0 ELSE 1) |->
           Cmd("set-environment",
               <<"-t", name, envVars[i].key, envVars[i].value>>)]

\* One set-environment per env entry, in entry order.
SetEnvironment(name, e) ==
    LET envVars == OrElse(e, <<>>)
    IN  [i \in 1..Len(envVars) |->
           Cmd("set-environment",
               <<"-t", name, envVars[i].key, envVars[i].value>>)]

\* Mutant: the commands of a window's panes are emitted before the
\* new-window that creates the window.
RECURSIVE RemainingWindows_PanesFirst(_, _, _, _, _)
RemainingWindows_PanesFirst(name, workingDir, wins, envOptionArgs, i) ==
    IF i >= Len(wins)
    THEN <<>>
    ELSE LET window == wins[i + 1]
         IN  buildWindowPaneCommands(name \o ":" \o window.name,
                                     workingDir, window, envOptionArgs)
                \o << Cmd("new-window",
                          <<"-t", name>> \o envOptionArgs
                             \o <<"-n", window.name, "-c", workingDir>>) >>
                \o RemainingWindows_PanesFirst(name, workingDir, wins,
                                               envOptionArgs, i + 1)

\* Mutant: new-window is built without the -e arguments.
RECURSIVE RemainingWindows_NoEnv(_, _, _, _, _)
RemainingWindows_NoEnv(name, workingDir, wins, envOptionArgs, i) ==
    IF i >= Len(wins)
    THEN <<>>
    ELSE LET window == wins[i + 1]
         IN  << Cmd("new-window",
                    <<"-t", name, "-n", window.name, "-c", workingDir>>) >>
                \o buildWindowPaneCommands(name \o ":" \o window.name,
                                           workingDir, window, envOptionArgs)
                \o RemainingWindows_NoEnv(name, workingDir, wins,
                                          envOptionArgs, i + 1)

\* The loop over windows[1..] of buildWindowsPaneCommands, from 0-based i.
RECURSIVE RemainingWindows(_, _, _, _, _)
RemainingWindows(name, workingDir, wins, envOptionArgs, i) ==
    IF i >= Len(wins)
    THEN <<>>
    ELSE LET window == wins[i + 1]
         IN  << Cmd("new-window",
                    <<"-t", name>> \o envOptionArgs
                       \o <<"-n", window.name, "-c", workingDir>>) >>
                \o buildWindowPaneCommands(name \o ":" \o window.name,
                                           workingDir, window, envOptionArgs)
                \o RemainingWindows(name, workingDir, wins, envOptionArgs,
                                    i + 1)

\* The new-session command: it names the first window when there is one.
NewSession(name, workingDir, wins, envOptionArgs) ==
    Cmd("new-session",
        <<"-d", "-s", name>> \o envOptionArgs
           \o (IF Len(wins) = 0 THEN <<>> ELSE <<"-n", wins[1].name>>)
           \o <<"-c", workingDir>>)

\* Mutant: the final select-window targets the last declared window, the
\* one created last, instead of the first.
buildWindowsPaneCommands_SelectLast(name, workingDir, wins, e) ==
    LET envOptionArgs == buildEnvOptionArgs(e)
    IN  IF Len(wins) = 0
        THEN << NewSession(name, workingDir, wins, envOptionArgs) >>
                \o SetEnvironment(name, e)
        ELSE << NewSession(name, workingDir, wins, envOptionArgs) >>
                \o SetEnvironment(name, e)
                \o buildWindowPaneCommands(name \o ":" \o wins[1].name,
                                           workingDir, wins[1], envOptionArgs)
                \o RemainingWindows(name, workingDir, wins, envOptionArgs, 1)
                \o << Cmd("select-window",
                          <<"-t", name \o ":" \o wins[Len(wins)].name>>) >>

buildWindowsPaneCommands(name, workingDir, wins, e) ==
    LET envOptionArgs == buildEnvOptionArgs(e)
    IN  IF Len(wins) = 0
        THEN << NewSession(name, workingDir, wins, envOptionArgs) >>
                \o SetEnvironment(name, e)
        ELSE LET firstWindow == wins[1]
             IN  << NewSession(name, workingDir, wins, envOptionArgs) >>
                    \o SetEnvironment(name, e)
                    \o buildWindowPaneCommands(name \o ":" \o firstWindow.name,
                                               workingDir, firstWindow,
                                               envOptionArgs)
                    \o RemainingWindows(name, workingDir, wins, envOptionArgs,
                                        1)
                    \o << Cmd("select-window",
                              <<"-t", name \o ":" \o firstWindow.name>>) >>

(***************************************************************************)
(* The compiler as a state machine: the configuration declares the         *)
(* windows one by one, and Compile applies the compiler to them.           *)
(***************************************************************************)
(***************************************************************************)
(* Workspace storage of the editor: identities, directories, stores.       *)
(***************************************************************************)
\* The main repository and the worktree.
MainRepoPath == "/repo"
WorktreePath == "/repo-wt"
Folders == {MainRepoPath, WorktreePath}

\* stat(folderPath, {bigint: true}) of a folder that exists: the inode
\* number, and the birth time birthtimeNs as its whole seconds and the
\* nanoseconds left (birthtimeNs / 1_000_000_000n and
\* birthtimeNs % 1_000_000_000n), counted from a recent epoch to stay
\* within 32 bits.
StatOf(folderPath) ==
    IF folderPath = MainRepoPath
    THEN [ino |-> 4711, birthSec |-> 1700, birthNsec |-> 123456789]
    ELSE [ino |-> 4712, birthSec |-> 1701, birthNsec |-> 987654321]

\* getVSCodeStoragePath(): Undefined stands for null.
getVSCodeStoragePath ==
    IF storageOverride THEN "/custom/workspaceStorage"
    ELSE IF platform = "darwin"
    THEN "~/Library/Application Support/Code/User/workspaceStorage"
    ELSE IF platform = "linux" THEN "~/.config/Code/User/workspaceStorage"
    ELSE Undefined

\* Mutant: only the fingerprint is hashed, not the path.
Md5_FingerprintOnly(folderPath, ctime) == "md5(" \o ctime \o ")"

\* The hex digest of md5 over path then ctime: one digest per text hashed.
Md5(folderPath, ctime) == "md5(" \o folderPath \o ctime \o ")"

\* The fingerprint computeWorkspaceId hashes after the path: the inode on
\* linux, the birth time rounded to milliseconds on darwin.
Ctime(p, stats) ==
    IF p = "linux" THEN ToString(stats.ino)
    ELSE ToString(stats.birthSec * 1000
                    + (stats.birthNsec + 500000) \div 1000000)

\* computeWorkspaceId(folderPath): the id, or the error thrown.
computeWorkspaceId(folderPath) ==
    IF folderPath \notin folders
    THEN [threw |-> TRUE,
          value |-> "ENOENT: no such file or directory, stat '"
                      \o folderPath \o "'"]
    ELSE IF platform \in {"linux", "darwin"}
    THEN [threw |-> FALSE,
          value |-> Md5(folderPath, Ctime(platform, StatOf(folderPath)))]
    ELSE [threw |-> TRUE, value |-> "Unsupported platform: " \o platform]

\* The ids the folders have on the platforms that have one.
StorageIds ==
    { Md5(f, Ctime(p, StatOf(f))) : f \in Folders, p \in {"linux", "darwin"} }

\* pathToFileURL(folderPath).href
FileUrl(folderPath) == "file://" \o folderPath

\* A state store, by what the rewrite passes read and change: can it be
\* opened and queried, are its layout rows JSON, the folder its values
\* name, and whether it holds editors of files missing from that folder,
\* terminal keys, agent session keys.
Store(folderPath) ==
    [corrupt |-> FALSE, parses |-> TRUE, refs |-> folderPath,
     staleEditors |-> TRUE, terminalKeys |-> TRUE, agentKeys |-> TRUE]

CorruptStore ==
    [corrupt |-> TRUE, parses |-> FALSE, refs |-> Undefined,
     staleEditors |-> FALSE, terminalKeys |-> FALSE, agentKeys |-> FALSE]

\* A store that can be queried and whose layout rows are not JSON.
BrokenLayoutStore(folderPath) == [Store(folderPath) EXCEPT !.parses = FALSE]

\* A workspace's directory: workspace.json, state.vscdb, state.vscdb.backup,
\* each None when the file is not there.
Dir(workspaceJson, db, backup) ==
    [workspaceJson |-> workspaceJson, db |-> db, backup |-> backup]

\* The directories the editor has made for a folder it has opened.
EditorDirs(folderPath) ==
    { Dir(Some(FileUrl(folderPath)), d, b) :
        d \in {None, Some(Store(folderPath)), Some(CorruptStore),
                Some(BrokenLayoutStore(folderPath))},
        b \in {None, Some(Store(folderPath)), Some(CorruptStore)} }

\* workspaceExists(workspaceId)
workspaceExists(workspaceId) ==
    IF getVSCodeStoragePath = Undefined THEN FALSE
    ELSE IsSome(storage[workspaceId])

\* rewriteStatePaths(dbFile, oldPath, newPath) on a store.
rewriteStatePaths(db, oldPath, newPath) ==
    IF db.corrupt THEN db
    ELSE [db EXCEPT !.refs = IF @ = oldPath THEN newPath ELSE @]

\* filterMissingEditors(dbFile, worktreePath) on a store.
filterMissingEditors(db) ==
    IF db.corrupt \/ ~db.parses THEN db
    ELSE [db EXCEPT !.staleEditors = FALSE]

\* clearTerminalState(dbFile) on a store.
clearTerminalState(db) ==
    IF db.corrupt THEN db ELSE [db EXCEPT !.terminalKeys = FALSE]

\* clearExternalAgentSessions(dbFile) on a store.
clearExternalAgentSessions(db) ==
    IF db.corrupt THEN db ELSE [db EXCEPT !.agentKeys = FALSE]

\* The four passes syncWorkspaceState runs on a store file, in order.
RewritePasses(db, oldPath, newPath) ==
    clearExternalAgentSessions(
        clearTerminalState(
            filterMissingEditors(rewriteStatePaths(db, oldPath, newPath))))

\* The number each pass returns: 0 from its catch when the store cannot be
\* queried (filterMissingEditors: also when a layout row is not JSON),
\* else the rows it rewrote, the editors it removed, the keys it deleted.
rewriteStatePathsCount(db, oldPath) ==
    IF ~db.corrupt /\ db.refs = oldPath THEN 1 ELSE 0

filterMissingEditorsCount(db) ==
    IF ~db.corrupt /\ db.parses /\ db.staleEditors THEN 1 ELSE 0

clearTerminalStateCount(db) ==
    IF ~db.corrupt /\ db.terminalKeys THEN 3 ELSE 0

clearExternalAgentSessionsCount(db) ==
    IF ~db.corrupt /\ db.agentKeys THEN 2 ELSE 0

\* An entry of the log of a run: what was done to which file, and the
\* number a pass returned (0 for a file system operation).
Done(file, op, rows) == [file |-> file, op |-> op, rows |-> rows]

\* Mutant: the stale editors are pruned before the paths are rewritten.
RunPasses_PruneFirst(file, db, oldPath, newPath) ==
    LET pruned == filterMissingEditors(db)
        rewritten == rewriteStatePaths(pruned, oldPath, newPath)
        noTerminal == clearTerminalState(rewritten)
        noAgents == clearExternalAgentSessions(noTerminal)
    IN  [db |-> noAgents,
         log |-> << Done(file, "filterMissingEditors",
                         filterMissingEditorsCount(db)),
                    Done(file, "rewriteStatePaths",
                         rewriteStatePathsCount(pruned, oldPath)),
                    Done(file, "clearTerminalState",
                         clearTerminalStateCount(rewritten)),
                    Done(file, "clearExternalAgentSessions",
                         clearExternalAgentSessionsCount(noTerminal)) >>]

\* The body of if (await Bun.file(dbFile).exists()) { ... }: the four
\* passes on a store file, each on what the one before left; the store
\* after them and what they did, in order.
RunPasses(file, db, oldPath, newPath) ==
    LET rewritten == rewriteStatePaths(db, oldPath, newPath)
        pruned == filterMissingEditors(rewritten)
        noTerminal == clearTerminalState(pruned)
        noAgents == clearExternalAgentSessions(noTerminal)
    IN  [db |-> noAgents,
         log |-> << Done(file, "rewriteStatePaths",
                         rewriteStatePathsCount(db, oldPath)),
                    Done(file, "filterMissingEditors",
                         filterMissingEditorsCount(rewritten)),
                    Done(file, "clearTerminalState",
                         clearTerminalStateCount(pruned)),
                    Done(file, "clearExternalAgentSessions",
                         clearExternalAgentSessionsCount(noTerminal)) >>]

\* The results syncWorkspaceState returns; skipped FALSE and an id or error
\* Undefined stand for the absent field.
SyncFailed(message) ==
    [success |-> FALSE, skipped |-> FALSE, error |-> message,
     mainWorkspaceId |-> Undefined, worktreeWorkspaceId |-> Undefined]

SyncSkipped(mainId, worktreeId) ==
    [success |-> TRUE, skipped |-> TRUE, error |-> Undefined,
     mainWorkspaceId |-> mainId, worktreeWorkspaceId |-> worktreeId]

SyncDone(mainId, worktreeId) ==
    [success |-> TRUE, skipped |-> FALSE, error |-> Undefined,
     mainWorkspaceId |-> mainId, worktreeWorkspaceId |-> worktreeId]

MainStorageNotFound ==
    "Main repo workspace storage not found. Open main repo in VS Code first."

\* The migration when it is not in use.
SyncIdle ==
    /\ platform = "linux"
    /\ storageOverride = FALSE
    /\ folders = {}
    /\ storage = [id \in StorageIds |-> None]
    /\ spc = "idle"
    /\ mainWorkspaceId = Undefined
    /\ worktreeWorkspaceId = Undefined
    /\ syncResult = None
    /\ prevResult = None
    /\ storageAtStart = [id \in StorageIds |-> None]
    /\ fsLog = <<>>
    /\ runs = 0

\* No pass over a state store is running.
StoreIdle ==
    /\ table = [openable |-> TRUE, rows |-> <<>>]
    /\ tableAtStart = table
    /\ tpc = "idle"
    /\ passResult = 0
    /\ updated = <<>>

\* The layout tree editor when it is not in use.
PruneIdle ==
    /\ files = {}
    /\ editorState = None
    /\ prunedState = None
    /\ totalRemoved = 0
    /\ ppc = "idle"

\* The executor and tmux before any createSession.
SessionIdle ==
    /\ server = [n \in SessionNames |-> <<>>]
    /\ issued = <<>>
    /\ next = 1
    /\ running = FALSE
    /\ thrown = Undefined
    /\ result = None
    /\ calls = 0
    /\ checked = <<>>

InitCompile ==
    /\ IdIdle
    /\ OpenIdle
    /\ sessionName = "app"
    /\ windows = <<>>
    /\ env \in Envs
    /\ commands = <<>>
    /\ pc = "start"
    /\ SessionIdle
    /\ PruneIdle
    /\ SyncIdle
    /\ StoreIdle

\* One more window in the configuration's tmux.windows.
DeclareWindow ==
    /\ pc = "start"
    /\ Len(windows) < MaxWindows
    /\ \E k \in 0..(MaxPlanPanes - PlanPanes(windows)) :
         \E w \in WindowForms(Len(windows) + 1, k) :
           windows' = Append(windows, w)
    /\ UNCHANGED <<sessionName, env, commands, pc, sessionVars, pruneVars, idVars, openVars,
                   syncVars, storeVars>>

Compile ==
    /\ pc = "start"
    /\ commands' = buildWindowsPaneCommands(sessionName, WorkingDir, windows, env)
    /\ pc' = "built"
    /\ UNCHANGED <<sessionName, windows, env, sessionVars, pruneVars, idVars, openVars,
                   syncVars, storeVars>>

NextCompile == DeclareWindow \/ Compile

SpecCompile == InitCompile /\ [][NextCompile]_vars

(***************************************************************************)
(* services/tmux: createSession and executeCommands against tmux.          *)
(***************************************************************************)
\* Mutant: the session is named without the prefix.
ExactTarget_Bare(name) == name

\* The target =name: tmux takes a target that starts with = for the
\* session of exactly that name.
ExactTarget(name) == "=" \o name

\* Mutant: has-session never finds the session.
sessionExists_NeverFound(name) == FALSE

\* tmux has-session -t =name: a session of exactly that name exists. A
\* session exists once a new-session has been applied to it.
sessionExists(name) == server[name] # <<>>

\* tmux after it has carried out cmd. Every command of a plan addresses the
\* session the plan's new-session creates.
Applied(srv, name, cmd) == [srv EXCEPT ![name] = Append(@, cmd)]

\* Mutant: executeCommands catches a command's error and goes on with the
\* next command.
executeCommandsStep_GoesOn(i, ok) == [pc |-> "execute", next |-> i + 1]

\* executeCommands, after the command at position i has settled: the loop
\* goes on to i + 1, or the rejection leaves the loop and reaches
\* createSession's catch.
executeCommandsStep(i, ok) ==
    IF ok
    THEN [pc |-> "execute", next |-> i + 1]
    ELSE [pc |-> "returned", next |-> i]

\* The CreateSessionResult values createSession returns. alreadyExists is
\* FALSE where the code leaves it undefined.
AlreadyExistsResult(name) ==
    [success |-> TRUE, sessionName |-> name, error |-> Undefined,
     alreadyExists |-> TRUE]
CreatedResult(name) ==
    [success |-> TRUE, sessionName |-> name, error |-> Undefined,
     alreadyExists |-> FALSE]
FailedResult(name, message) ==
    [success |-> FALSE, sessionName |-> name, error |-> message,
     alreadyExists |-> FALSE]

\* The plans createSession is called with.
SessionPlans ==
    LET simple(i) == [name |-> WindowName(i), command |-> "run-top",
                      split |-> Undefined, layout |-> Undefined,
                      panes |-> None]
        split2(i) == [name |-> WindowName(i), command |-> Undefined,
                      split |-> Undefined, layout |-> Undefined,
                      panes |-> Some(<< [command |-> PaneCommand(1)],
                                        [command |-> PaneCommand(2)] >>)]
    IN  { <<>>, <<simple(1)>>, <<split2(1)>>, <<split2(1), simple(2)>> }

InitSession ==
    /\ IdIdle
    /\ OpenIdle
    /\ sessionName = "app"
    /\ windows \in SessionPlans
    /\ env \in {None, Some(<< [key |-> "WCT_BRANCH", value |-> "feat"] >>)}
    /\ commands = <<>>
    /\ pc = "idle"
    /\ \E existing \in SUBSET SessionNames :
         server = [n \in SessionNames |->
                     IF n \in existing
                     THEN << Cmd("new-session", <<"-d", "-s", n>>) >>
                     ELSE <<>>]
    /\ issued = <<>>
    /\ next = 1
    /\ running = FALSE
    /\ thrown = Undefined
    /\ result = None
    /\ calls = 0
    /\ checked = <<>>
    /\ PruneIdle
    /\ SyncIdle
    /\ StoreIdle

\* createSession(name, workingDir, config, env) is called.
CreateSession ==
    /\ pc \in {"idle", "returned"}
    /\ calls < MaxCalls
    /\ calls' = calls + 1
    /\ pc' = "sessionExists"
    /\ commands' = <<>>
    /\ issued' = <<>>
    /\ next' = 1
    /\ thrown' = Undefined
    /\ result' = None
    /\ UNCHANGED <<sessionName, windows, env, server, running,
                   checked, pruneVars, idVars, openVars, syncVars, storeVars>>

\* if (await sessionExists(name)) return {success, alreadyExists}
CheckSessionExists ==
    /\ pc = "sessionExists"
    /\ IF sessionExists(sessionName)
       THEN /\ result' = Some(AlreadyExistsResult(sessionName))
            /\ pc' = "returned"
       ELSE /\ result' = result
            /\ pc' = "build"
    /\ checked' = Append(checked, ExactTarget(sessionName))
    /\ UNCHANGED <<sessionName, windows, env, commands, server, issued, next,
                   running, thrown, calls,
                   pruneVars, idVars, openVars, syncVars, storeVars>>

\* createSessionWithWindows: compile the plan.
BuildCommands ==
    /\ pc = "build"
    /\ commands' = buildWindowsPaneCommands(sessionName, WorkingDir, windows, env)
    /\ next' = 1
    /\ pc' = "execute"
    /\ UNCHANGED <<sessionName, windows, env, server, issued, running, thrown,
                   result, calls,
                   checked, pruneVars, idVars, openVars, syncVars, storeVars>>

\* executeCommand(cmd): the tmux process of the command at the loop's
\* position is started.
StartCommand ==
    /\ pc = "execute"
    /\ ~running
    /\ next <= Len(commands)
    /\ issued' = Append(issued, commands[next])
    /\ running' = TRUE
    /\ UNCHANGED <<tmuxVars, server, next, thrown, result, calls,
                   checked, pruneVars, idVars, openVars, syncVars, storeVars>>

\* The awaited tmux command succeeds.
CommandSucceeds ==
    /\ pc = "execute"
    /\ running
    /\ server' = Applied(server, sessionName, commands[next])
    /\ running' = FALSE
    /\ next' = executeCommandsStep(next, TRUE).next
    /\ pc' = executeCommandsStep(next, TRUE).pc
    /\ UNCHANGED <<sessionName, windows, env, commands, issued, thrown,
                   result, calls,
                   checked, pruneVars, idVars, openVars, syncVars, storeVars>>

\* The awaited tmux command fails: it changes nothing in tmux, and its
\* error reaches createSession's catch.
CommandFails ==
    /\ pc = "execute"
    /\ running
    /\ \E message \in ErrorTexts :
         /\ thrown' = message
         /\ result' = Some(FailedResult(sessionName, message))
    /\ running' = FALSE
    /\ next' = executeCommandsStep(next, FALSE).next
    /\ pc' = executeCommandsStep(next, FALSE).pc
    /\ UNCHANGED <<sessionName, windows, env, commands, server, issued,
                   calls,
                   checked, pruneVars, idVars, openVars, syncVars, storeVars>>

\* executeCommands has run every command: createSession returns success.
ReturnCreated ==
    /\ pc = "execute"
    /\ ~running
    /\ next > Len(commands)
    /\ result' = Some(CreatedResult(sessionName))
    /\ pc' = "returned"
    /\ UNCHANGED <<sessionName, windows, env, commands, server, issued, next,
                   running, thrown, calls,
                   checked, pruneVars, idVars, openVars, syncVars, storeVars>>

NextSession ==
    \/ CreateSession
    \/ CheckSessionExists
    \/ BuildCommands
    \/ StartCommand
    \/ CommandSucceeds
    \/ CommandFails
    \/ ReturnCreated

SpecSession == InitSession /\ [][NextSession]_vars

(***************************************************************************)
(* Reading a compiled plan.                                                *)
(***************************************************************************)
\* The argument that follows the first occurrence of flag in args.
ArgAfter(args, flag) ==
    LET at == { j \in 1..(Len(args) - 1) : args[j] = flag }
        first == CHOOSE j \in at : \A m \in at : j <= m
    IN  IF at = {} THEN Undefined ELSE args[first + 1]

\* The positions of the plan's commands of type t.
OfType(t) == { k \in 1..Len(commands) : commands[k].type = t }

\* The target session:window of declared window i (1-based).
WindowTarget(i) == sessionName \o ":" \o windows[i].name

\* The positions of the pane commands addressed to declared window i.
PaneCmds(i) ==
    { k \in OfType("send-keys") \cup OfType("split-window")
              \cup OfType("select-layout") :
        ArgAfter(commands[k].args, "-t") = WindowTarget(i) }

\* The position of the command that creates declared window i.
Creation(i) ==
    IF i = 1
    THEN CHOOSE k \in OfType("new-session") : TRUE
    ELSE CHOOSE k \in OfType("new-window") :
           ArgAfter(commands[k].args, "-n") = windows[i].name

\* The panes of declared window i.
PanesOf(i) == OrElse(windows[i].panes, <<>>)

\* The j-th smallest element of a set of positions.
Nth(S, j) == CHOOSE x \in S : Cardinality({ y \in S : y < x }) = j - 1

(***************************************************************************)
(* C1. A plan compiled from at least one window starts with its only       *)
(* new-session and ends with its only select-window, which targets         *)
(* session:<name of the first declared window>; a plan compiled from no    *)
(* window holds no select-window.                                          *)
(***************************************************************************)
C1_SessionFirstSelectLast ==
    pc = "built" =>
      /\ Len(windows) >= 1 =>
            /\ OfType("new-session") = {1}
            /\ OfType("select-window") = {Len(commands)}
            /\ commands[Len(commands)].args = <<"-t", WindowTarget(1)>>
      /\ Len(windows) = 0 => OfType("select-window") = {}

\* A plan of two windows has been compiled.
C1_Witness ==
    /\ pc = "built"
    /\ Len(windows) = 2
    /\ commands[Len(commands)].type = "select-window"
    /\ OfType("new-window") # {}

(***************************************************************************)
(* C2. A window of one pane gets no select-layout; a window of two or more *)
(* panes gets exactly one, after all its split-window and send-keys        *)
(* commands and before every command of the next window.                   *)
(***************************************************************************)
C2_LayoutLastInWindow ==
    pc = "built" =>
      \A i \in 1..Len(windows) :
        LET layouts == PaneCmds(i) \cap OfType("select-layout")
        IN  /\ Len(PanesOf(i)) = 1 => layouts = {}
            /\ Len(PanesOf(i)) >= 2 =>
                  /\ Cardinality(layouts) = 1
                  /\ \A l \in layouts :
                        /\ \A k \in PaneCmds(i) : k <= l
                        /\ i < Len(windows) =>
                              \A k \in PaneCmds(i + 1) \cup {Creation(i + 1)} :
                                l < k

\* A window of two panes is followed by a window of one pane that runs a
\* command.
C2_Witness ==
    /\ pc = "built"
    /\ Len(windows) = 2
    /\ Len(PanesOf(1)) = 2
    /\ Len(PanesOf(2)) = 1
    /\ PaneCmds(2) # {}
    /\ PaneCmds(1) \cap OfType("select-layout") # {}

(***************************************************************************)
(* C3. A window of N >= 1 panes gets N-1 split-window commands, one for    *)
(* each of the panes 1..N-1 in declaration order; a pane that declares a   *)
(* command gets exactly one send-keys, directly after its split-window     *)
(* (pane 0: before the window's first split-window), and a pane that       *)
(* declares none gets no send-keys. Declares(c) says which optional        *)
(* commands count as declared.                                             *)
(***************************************************************************)
PaneProgram(i, Declares(_)) ==
    LET panes == PanesOf(i)
        N == Len(panes)
        splits == PaneCmds(i) \cap OfType("split-window")
        keys == PaneCmds(i) \cap OfType("send-keys")
        \* the send-keys that carry pane j's command (j is 0-based)
        keysOf(j) == { k \in keys : commands[k].args[3] = panes[j + 1].command }
    IN  N >= 1 =>
          /\ Cardinality(splits) = N - 1
          /\ \A j \in 0..(N - 1) :
                IF Declares(panes[j + 1].command)
                THEN /\ Cardinality(keysOf(j)) = 1
                     /\ \A k \in keysOf(j) :
                           IF j = 0
                           THEN \A sp \in splits : k < sp
                           ELSE k = Nth(splits, j) + 1
                ELSE /\ keysOf(j) = {}
                     /\ j >= 1 =>
                           (Nth(splits, j) + 1) \notin keys
          /\ Cardinality(keys) =
                Cardinality({ j \in 0..(N - 1) : Declares(panes[j + 1].command) })

\* The claim as stated: a command that is present is declared, also "".
C3_Original ==
    pc = "built" =>
      \A i \in 1..Len(windows) : PaneProgram(i, LAMBDA c : c # Undefined)

\* The claim as amended: a non-empty command is declared; a pane whose
\* command is absent or empty gets no send-keys.
C3_PaneProgram ==
    pc = "built" =>
      \A i \in 1..Len(windows) : PaneProgram(i, Truthy)

\* A window of three panes: pane 0 and pane 2 run a command, pane 1 runs
\* none.
C3_Witness ==
    /\ pc = "built"
    /\ \E i \in 1..Len(windows) :
         /\ Len(PanesOf(i)) = 3
         /\ Truthy(PanesOf(i)[1].command)
         /\ ~Truthy(PanesOf(i)[2].command)
         /\ Truthy(PanesOf(i)[3].command)
         /\ Cardinality(PaneCmds(i) \cap OfType("split-window")) = 2

(***************************************************************************)
(* C4. executeCommands starts the commands in array order, each only after *)
(* the one before has completed; once a command has failed no later        *)
(* command is started, what the commands before it did to tmux stays, and  *)
(* createSession returns success = false with the failing command's error  *)
(* text.                                                                   *)
(***************************************************************************)
C4_SequentialAbort ==
    LET done == server[sessionName]
    IN  /\ pc = "execute" =>
              /\ issued = SubSeq(commands, 1, Len(issued))
              /\ done = SubSeq(commands, 1, Len(done))
              /\ Len(issued) = Len(done) + (IF running THEN 1 ELSE 0)
        /\ thrown # Undefined =>
              /\ pc = "returned"
              /\ ~running
              /\ issued = SubSeq(commands, 1, next)
              /\ done = SubSeq(commands, 1, next - 1)
              /\ result = Some(FailedResult(sessionName, thrown))

\* A command in the middle of a plan has failed: commands before it were
\* applied, commands after it exist.
C4_Witness ==
    /\ pc = "returned"
    /\ thrown # Undefined
    /\ next >= 3
    /\ next < Len(commands)
    /\ Len(server[sessionName]) = next - 1

(***************************************************************************)
(* The layout tree editor: filterEditorsInState.                           *)
(***************************************************************************)
\* The identifier tag of a file editor; every other tag passes through.
FileEditorInput == "workbench.editors.files.fileEditorInput"

\* JSON.parse(editor.value) threw.
Throws == "<throws>"

\* An editor's value is a JSON text. It is modelled by the text and by what
\* JSON.parse(value)?.resourceJSON?.path evaluates to: a path, Undefined
\* when the parsed value carries no path, Throws when the text is not JSON.
EditorValue(text, path) == [text |-> text, path |-> path]

\* The value text of the editor declared at position i: no two editors of a
\* group are the same record.
EditorText(i) == "v" \o ToString(i)

\* A path of a file that is in the worktree, and one of a file that is not.
ExistingPath(i) == "/wt/src/f" \o ToString(i) \o ".ts"
MissingPath(i) == "/main/src/f" \o ToString(i) \o ".ts"

\* The editors a group may hold at position i (1-based): a non-file editor,
\* and file editors whose value is not JSON, carries no path, names an
\* existing file, names a missing file.
EditorForms(i) ==
    { [id |-> "workbench.editors.git.gitEditor",
       value |-> EditorValue(EditorText(i), Undefined)],
      [id |-> FileEditorInput, value |-> EditorValue(EditorText(i), Throws)],
      [id |-> FileEditorInput, value |-> EditorValue(EditorText(i), Undefined)],
      [id |-> FileEditorInput,
       value |-> EditorValue(EditorText(i), ExistingPath(i))],
      [id |-> FileEditorInput,
       value |-> EditorValue(EditorText(i), MissingPath(i))] }

\* The sequences over 0..n-1 that hold every index once.
Permutations0(n) ==
    { p \in [1..n -> 0..(n - 1)] :
        \A a, b \in 1..n : a # b => p[a] # p[b] }

Leaf(group) == [type |-> "leaf", data |-> group]

\* An editor part state whose grid's root is the node.
GridState(node) == [serializedGrid |-> Some([root |-> Some(node)])]

\* A leaf group that holds no editor yet.
EmptyGroup ==
    [editors |-> Some(<<>>), mru |-> None, preview |-> None, sticky |-> None]

\* await access(filePath) resolves.
access(filePath) == filePath \in files

\* One turn of the loop over a group's editors: is index i pushed to
\* keepIndices.
KeepsEditor_FailClosed(editor) ==
    IF editor.id # FileEditorInput THEN TRUE
    ELSE IF editor.value.path = Throws THEN FALSE
    ELSE IF ~Truthy(editor.value.path) THEN TRUE
    ELSE access(editor.value.path)

KeepsEditor(editor) ==
    IF editor.id # FileEditorInput THEN TRUE
    ELSE IF editor.value.path = Throws THEN TRUE
    ELSE IF ~Truthy(editor.value.path) THEN TRUE
    ELSE access(editor.value.path)

RECURSIVE KeepIndices(_, _)
\* keepIndices (0-based), as the loop builds it from index i on.
KeepIndices(editors, i) ==
    IF i >= Len(editors) THEN <<>>
    ELSE (IF KeepsEditor(editors[i + 1]) THEN <<i>> ELSE <<>>)
         \o KeepIndices(editors, i + 1)

\* The Map oldToNew, filled by keepIndices.forEach.
OldToNew(keepIndices) ==
    [old \in { keepIndices[j] : j \in DOMAIN keepIndices } |->
        (CHOOSE j \in DOMAIN keepIndices : keepIndices[j] = old) - 1]

\* group.mru.filter(has).map(get ?? 0)
RemapMru_FilterOnly(mru, oldToNew) ==
    SelectSeq(mru, LAMBDA i : i \in DOMAIN oldToNew)

RemapMru(mru, oldToNew) ==
    LET kept == SelectSeq(mru, LAMBDA i : i \in DOMAIN oldToNew)
    IN  [j \in DOMAIN kept |->
            IF kept[j] \in DOMAIN oldToNew THEN oldToNew[kept[j]] ELSE 0]

\* oldToNew.has(preview) ? oldToNew.get(preview) : undefined
RemapPreview_Keep(preview, oldToNew) ==
    IF preview \in DOMAIN oldToNew THEN Some(preview) ELSE None

RemapPreview(preview, oldToNew) ==
    IF preview \in DOMAIN oldToNew THEN Some(oldToNew[preview]) ELSE None

\* The loop that counts the kept indices below sticky.
NewSticky_Inclusive(sticky, oldToNew) ==
    Cardinality({ i \in 0..sticky : i \in DOMAIN oldToNew })

NewSticky(sticky, oldToNew) ==
    Cardinality({ i \in 0..(sticky - 1) : i \in DOMAIN oldToNew })

\* walkNode on a leaf: the group after the call and the editors removed.
WalkLeaf(group) ==
    LET editors == OrElse(group.editors, <<>>)
        keepIndices == KeepIndices(editors, 0)
        removed == Len(editors) - Len(keepIndices)
        oldToNew == OldToNew(keepIndices)
    IN  IF removed = 0
        THEN [group |-> group, removed |-> 0]
        ELSE [group |->
                [editors |-> Some([j \in DOMAIN keepIndices |->
                                     editors[keepIndices[j] + 1]]),
                 mru |-> IF IsSome(group.mru)
                         THEN Some(RemapMru(Get(group.mru), oldToNew))
                         ELSE None,
                 preview |-> IF IsSome(group.preview)
                             THEN RemapPreview(Get(group.preview), oldToNew)
                             ELSE None,
                 sticky |-> IF IsSome(group.sticky)
                            THEN Some(NewSticky(Get(group.sticky), oldToNew))
                            ELSE None],
              removed |-> removed]

RECURSIVE SumRemoved(_)
SumRemoved(walked) ==
    IF walked = <<>> THEN 0
    ELSE Head(walked).removed + SumRemoved(Tail(walked))

RECURSIVE walkNode(_)
\* walkNode(node): the node after the call and what it added to
\* totalRemoved.
walkNode(node) ==
    IF node.type = "branch"
    THEN LET walked == [c \in DOMAIN node.data |-> walkNode(node.data[c])]
         IN  [node |-> [type |-> "branch",
                        data |-> [c \in DOMAIN walked |-> walked[c].node]],
              removed |-> SumRemoved(walked)]
    ELSE IF node.type # "leaf"
    THEN [node |-> node, removed |-> 0]
    ELSE LET w == WalkLeaf(node.data)
         IN  [node |-> [type |-> "leaf", data |-> w.group],
              removed |-> w.removed]

\* filterEditorsInState(state): the state object after the call and the
\* number returned.
filterEditorsInState(state) ==
    IF IsSome(state.serializedGrid) /\ IsSome(Get(state.serializedGrid).root)
    THEN LET w == walkNode(Get(Get(state.serializedGrid).root))
         IN  [state |-> [serializedGrid |-> Some([root |-> Some(w.node)])],
              removed |-> w.removed]
    ELSE [state |-> state, removed |-> 0]

\* The editor part states before any editor is open: no grid, a grid
\* without root, a grid whose root is one leaf group.
EditorStates ==
    { [serializedGrid |-> None], [serializedGrid |-> Some([root |-> None])],
      GridState(Leaf(EmptyGroup)) }

\* tmux and the compiler when they are not in use.
TmuxIdle ==
    /\ sessionName = "app"
    /\ windows = <<>>
    /\ env = None
    /\ commands = <<>>
    /\ pc = "idle"

InitPrune ==
    /\ IdIdle
    /\ OpenIdle
    /\ TmuxIdle
    /\ SessionIdle
    /\ SyncIdle
    /\ StoreIdle
    /\ files = { ExistingPath(i) : i \in 1..MaxEditors }
    /\ editorState \in EditorStates
    /\ prunedState = None
    /\ totalRemoved = 0
    /\ ppc = "open"

\* The state's root is a leaf group.
HasLeaf ==
    /\ IsSome(editorState.serializedGrid)
    /\ IsSome(Get(editorState.serializedGrid).root)

\* The editor opens one more editor in the group, at most MaxEditors.
OpenEditor ==
    /\ ppc = "open"
    /\ HasLeaf
    /\ LET group == Get(Get(editorState.serializedGrid).root).data
           n == Len(Get(group.editors))
       IN  /\ n < MaxEditors
           /\ \E e \in EditorForms(n + 1) :
                editorState' =
                  GridState(Leaf([group EXCEPT
                                    !.editors = Some(Append(Get(@), e))]))
    /\ UNCHANGED <<tmuxVars, sessionVars, files, prunedState, totalRemoved,
                   ppc, syncVars, idVars, openVars, storeVars>>

\* The state the store holds for the open editors, given the rest of a
\* leaf group.
StoredState(m, p, s) ==
    IF HasLeaf
    THEN LET group == Get(Get(editorState.serializedGrid).root).data
         IN  GridState(Leaf([group EXCEPT !.mru = m, !.preview = p,
                                          !.sticky = s]))
    ELSE editorState

\* The number of open editors.
OpenEditors ==
    IF HasLeaf
    THEN Len(Get(Get(Get(editorState.serializedGrid).root).data.editors))
    ELSE 0

\* filterEditorsInState(state) runs on the state read from the store: of a
\* leaf group of n editors, mru is absent or a permutation of the indices,
\* preview absent or an index, sticky absent or in 0..n.
FilterEditors ==
    /\ ppc = "open"
    /\ LET n == OpenEditors
       IN  \E m \in {None} \cup { Some(q) : q \in Permutations0(n) },
              p \in {None} \cup { Some(i) : i \in 0..(n - 1) },
              s \in {None} \cup { Some(k) : k \in 0..n } :
             LET state == StoredState(m, p, s)
                 out == filterEditorsInState(state)
             IN  /\ editorState' = state
                 /\ prunedState' = Some(out.state)
                 /\ totalRemoved' = out.removed
    /\ ppc' = "filtered"
    /\ UNCHANGED <<tmuxVars, sessionVars, files, syncVars, idVars, openVars, storeVars>>

NextPrune == OpenEditor \/ FilterEditors

SpecPrune == InitPrune /\ [][NextPrune]_vars

(***************************************************************************)
(* Reading a pruned leaf group.                                            *)
(***************************************************************************)
\* filterEditorsInState has run on a state whose root is a leaf group.
Pruned ==
    /\ ppc = "filtered"
    /\ IsSome(editorState.serializedGrid)
    /\ IsSome(Get(editorState.serializedGrid).root)

\* The group before and after pruning, and their editors.
GroupBefore == Get(Get(editorState.serializedGrid).root).data
GroupAfter == Get(Get(Get(prunedState).serializedGrid).root).data
EditorsBefore == OrElse(GroupBefore.editors, <<>>)
EditorsAfter == OrElse(GroupAfter.editors, <<>>)

\* The editor at old index i (0-based) of before is in after.
Survives(before, after, i) ==
    \E j \in DOMAIN after : after[j] = before[i + 1]

\* The index (0-based) in after of the editor at old index i of before.
NewIndex(before, after, i) ==
    (CHOOSE j \in DOMAIN after : after[j] = before[i + 1]) - 1

\* The old indices of the editors of before that are not in after.
RemovedIndices(before, after) ==
    { i \in 0..(Len(before) - 1) : ~Survives(before, after, i) }

\* s holds every index of 0..n-1 once.
IsPermutation0(s, n) ==
    /\ Len(s) = n
    /\ \A i \in 0..(n - 1) : \E j \in DOMAIN s : s[j] = i

(***************************************************************************)
(* C7. A leaf group whose mru is a permutation of 0..len(editors)-1 has,   *)
(* after pruning, an mru that is a permutation of 0..len(new editors)-1:   *)
(* the removed editors' indices are dropped, each surviving index is       *)
(* replaced by the new index of the same editor, and the survivors keep    *)
(* their relative order.                                                   *)
(***************************************************************************)
C7_MruRemapped ==
    Pruned =>
      LET before == EditorsBefore
          after == EditorsAfter
          old == GroupBefore.mru
          new == GroupAfter.mru
      IN  (IsSome(old) /\ IsPermutation0(Get(old), Len(before)))
          => /\ IsSome(new)
             /\ LET kept == SelectSeq(Get(old),
                                      LAMBDA i : Survives(before, after, i))
                IN  /\ IsPermutation0(Get(new), Len(after))
                    /\ Len(Get(new)) = Len(kept)
                    /\ \A j \in DOMAIN kept :
                         Get(new)[j] = NewIndex(before, after, kept[j])

\* The middle editor of three was removed and the two survivors, most
\* recent first, moved to new indices in the same order.
C7_Witness ==
    /\ Pruned
    /\ GroupBefore.mru = Some(<<2, 1, 0>>)
    /\ RemovedIndices(EditorsBefore, EditorsAfter) = {1}
    /\ GroupAfter.mru = Some(<<1, 0>>)

(***************************************************************************)
(* C8. A leaf group with sticky count k and removed indices R has, after   *)
(* pruning, the sticky count |{0..k-1} \ R|, which lies in                 *)
(* 0..len(new editors).                                                    *)
(***************************************************************************)
C8_StickyCount ==
    Pruned =>
      LET old == GroupBefore.sticky
          new == GroupAfter.sticky
          after == EditorsAfter
          R == RemovedIndices(EditorsBefore, after)
      IN  IsSome(old)
          => /\ IsSome(new)
             /\ Get(new) = Cardinality((0..(Get(old) - 1)) \ R)
             /\ Get(new) \in 0..Len(after)

\* Two sticky editors, of which the second was removed, and a removed
\* editor after them: one sticky editor is left.
C8_Witness ==
    /\ Pruned
    /\ GroupBefore.sticky = Some(2)
    /\ RemovedIndices(EditorsBefore, EditorsAfter) = {1, 2}
    /\ GroupAfter.sticky = Some(1)

(***************************************************************************)
(* C9. After pruning a leaf group that has a preview index, preview is     *)
(* absent if the editor it pointed at was removed, and is otherwise the    *)
(* new index of that editor; a preview that remains is a valid index into  *)
(* the new editors.                                                        *)
(***************************************************************************)
C9_PreviewRemapped ==
    Pruned =>
      LET before == EditorsBefore
          after == EditorsAfter
          old == GroupBefore.preview
          new == GroupAfter.preview
      IN  IsSome(old)
          => IF Survives(before, after, Get(old))
             THEN /\ new = Some(NewIndex(before, after, Get(old)))
                  /\ Get(new) \in 0..(Len(after) - 1)
             ELSE new = None

\* The preview editor was the third of three and moved down to index 1
\* when the first was removed.
C9_Witness ==
    /\ Pruned
    /\ GroupBefore.preview = Some(2)
    /\ RemovedIndices(EditorsBefore, EditorsAfter) = {0}
    /\ GroupAfter.preview = Some(1)

(***************************************************************************)
(* C10. Which editors pruning keeps.                                       *)
(***************************************************************************)
\* The cases a kept editor falls in.
NotFileEditor(editor) == editor.id # FileEditorInput
CannotBeParsed(editor) == editor.value.path = Throws
CarriesNoPath(editor) ==
    editor.value.path # Throws /\ ~Truthy(editor.value.path)
FileExists(editor) ==
    /\ editor.value.path # Throws
    /\ Truthy(editor.value.path)
    /\ editor.value.path \in files

\* The editors of before that are in after are there in their original
\* relative order, and after holds no other editor.
KeptInOrder(before, after) ==
    after = SelectSeq(before,
                      LAMBDA e : \E j \in DOMAIN after : after[j] = e)

\* C10 as stated: an editor is kept iff its file exists, or its value
\* cannot be parsed, or it is not a file editor; kept editors keep their
\* relative order.
C10_Original ==
    Pruned =>
      LET before == EditorsBefore
          after == EditorsAfter
      IN  /\ \A i \in 0..(Len(before) - 1) :
               Survives(before, after, i)
                 <=> \/ FileExists(before[i + 1])
                     \/ CannotBeParsed(before[i + 1])
                     \/ NotFileEditor(before[i + 1])
          /\ KeptInOrder(before, after)

\* C10, amended: an editor is kept iff its file exists, or its value cannot
\* be parsed, or its parsed value carries no path, or it is not a file
\* editor; every other editor is removed and kept editors keep their
\* relative order.
C10_KeptEditors ==
    Pruned =>
      LET before == EditorsBefore
          after == EditorsAfter
      IN  /\ \A i \in 0..(Len(before) - 1) :
               Survives(before, after, i)
                 <=> \/ FileExists(before[i + 1])
                     \/ CannotBeParsed(before[i + 1])
                     \/ CarriesNoPath(before[i + 1])
                     \/ NotFileEditor(before[i + 1])
          /\ KeptInOrder(before, after)

\* A file editor whose value is not JSON and one whose value carries no
\* path were kept around a removed editor of a missing file.
C10_Witness ==
    /\ Pruned
    /\ Len(EditorsBefore) = 3
    /\ EditorsBefore[1].id = FileEditorInput
    /\ CannotBeParsed(EditorsBefore[1])
    /\ EditorsBefore[2].id = FileEditorInput
    /\ EditorsBefore[2].value.path = MissingPath(2)
    /\ EditorsBefore[3].id = FileEditorInput
    /\ CarriesNoPath(EditorsBefore[3])
    /\ EditorsAfter = <<EditorsBefore[1], EditorsBefore[3]>>

(***************************************************************************)
(* syncWorkspaceState(mainRepoPath, worktreePath), step by step.           *)
(***************************************************************************)
\* The platforms, with and without WCT_VSCODE_STORAGE_PATH.
Platforms ==
    { <<"linux", FALSE>>, <<"darwin", FALSE>>, <<"win32", FALSE>>,
      <<"win32", TRUE>> }

\* The directory of a folder's workspace on platform p.
IdOn(p, folderPath) == Md5(folderPath, Ctime(p, StatOf(folderPath)))

\* A target directory the migration did not finish: made, nothing in it.
EmptyDir == Dir(None, None, None)

InitSync ==
    /\ IdIdle
    /\ OpenIdle
    /\ TmuxIdle
    /\ SessionIdle
    /\ PruneIdle
    /\ StoreIdle
    /\ \E pf \in Platforms : platform = pf[1] /\ storageOverride = pf[2]
    /\ folders \in SUBSET Folders
    /\ \E m \in {None} \cup { Some(d) : d \in EditorDirs(MainRepoPath) },
          w \in {None, Some(EmptyDir),
                 Some(Dir(Some(FileUrl(WorktreePath)),
                          Some(Store(WorktreePath)), None))} :
         LET p == IF platform = "darwin" THEN "darwin" ELSE "linux"
         IN  storage = [id \in StorageIds |->
                          IF id = IdOn(p, MainRepoPath) THEN m
                          ELSE IF id = IdOn(p, WorktreePath) THEN w
                          ELSE None]
    /\ spc = "idle"
    /\ mainWorkspaceId = Undefined
    /\ worktreeWorkspaceId = Undefined
    /\ syncResult = None
    /\ prevResult = None
    /\ storageAtStart = storage
    /\ fsLog = <<>>
    /\ runs = 0

\* return result, from anywhere in the function.
SyncReturn(r) ==
    /\ syncResult' = Some(r)
    /\ spc' = "returned"

\* syncWorkspaceState(MainRepoPath, WorktreePath) is called.
SyncStart ==
    /\ spc \in {"idle", "returned"}
    /\ runs < MaxRuns
    /\ runs' = runs + 1
    /\ prevResult' = syncResult
    /\ storageAtStart' = storage
    /\ fsLog' = <<>>
    /\ mainWorkspaceId' = Undefined
    /\ worktreeWorkspaceId' = Undefined
    /\ spc' = "storagePath"
    /\ UNCHANGED <<tmuxVars, sessionVars, pruneVars, idVars, openVars, storeVars, platform,
                   storageOverride, folders, storage, syncResult>>

\* const storagePath = getVSCodeStoragePath(); if (!storagePath) return
CheckStoragePath ==
    /\ spc = "storagePath"
    /\ IF ~Truthy(getVSCodeStoragePath)
       THEN SyncReturn(SyncFailed("Unsupported platform"))
       ELSE spc' = "mainId" /\ UNCHANGED syncResult
    /\ UNCHANGED <<tmuxVars, sessionVars, pruneVars, idVars, openVars, storeVars, platform,
                   storageOverride, folders, storage, mainWorkspaceId,
                   worktreeWorkspaceId, prevResult, storageAtStart, fsLog,
                   runs>>

\* const mainWorkspaceId = await computeWorkspaceId(mainRepoPath)
ComputeMainId ==
    /\ spc = "mainId"
    /\ LET id == computeWorkspaceId(MainRepoPath)
       IN  IF id.threw
           THEN SyncReturn(SyncFailed(id.value))
                /\ UNCHANGED mainWorkspaceId
           ELSE /\ mainWorkspaceId' = id.value
                /\ spc' = "mainExists"
                /\ UNCHANGED syncResult
    /\ UNCHANGED <<tmuxVars, sessionVars, pruneVars, idVars, openVars, storeVars, platform,
                   storageOverride, folders, storage, worktreeWorkspaceId,
                   prevResult, storageAtStart, fsLog, runs>>

\* if (!(await workspaceExists(mainWorkspaceId))) return
CheckMainExists_Proceeds ==
    /\ spc = "mainExists"
    /\ spc' = "worktreeId"
    /\ UNCHANGED syncResult
    /\ UNCHANGED <<tmuxVars, sessionVars, pruneVars, idVars, openVars, storeVars, platform,
                   storageOverride, folders, storage, mainWorkspaceId,
                   worktreeWorkspaceId, prevResult, storageAtStart, fsLog,
                   runs>>

CheckMainExists ==
    /\ spc = "mainExists"
    /\ IF ~workspaceExists(mainWorkspaceId)
       THEN SyncReturn(SyncFailed(MainStorageNotFound))
       ELSE spc' = "worktreeId" /\ UNCHANGED syncResult
    /\ UNCHANGED <<tmuxVars, sessionVars, pruneVars, idVars, openVars, storeVars, platform,
                   storageOverride, folders, storage, mainWorkspaceId,
                   worktreeWorkspaceId, prevResult, storageAtStart, fsLog,
                   runs>>

\* const worktreeWorkspaceId = await computeWorkspaceId(worktreePath)
ComputeWorktreeId ==
    /\ spc = "worktreeId"
    /\ LET id == computeWorkspaceId(WorktreePath)
       IN  IF id.threw
           THEN SyncReturn(SyncFailed(id.value))
                /\ UNCHANGED worktreeWorkspaceId
           ELSE /\ worktreeWorkspaceId' = id.value
                /\ spc' = "alreadyExists"
                /\ UNCHANGED syncResult
    /\ UNCHANGED <<tmuxVars, sessionVars, pruneVars, idVars, openVars, storeVars, platform,
                   storageOverride, folders, storage, mainWorkspaceId,
                   prevResult, storageAtStart, fsLog, runs>>

\* if (await workspaceExists(worktreeWorkspaceId)) return skipped
CheckAlreadyExists_NeverSkips ==
    /\ spc = "alreadyExists"
    /\ spc' = "copy"
    /\ UNCHANGED syncResult
    /\ UNCHANGED <<tmuxVars, sessionVars, pruneVars, idVars, openVars, storeVars, platform,
                   storageOverride, folders, storage, mainWorkspaceId,
                   worktreeWorkspaceId, prevResult, storageAtStart, fsLog,
                   runs>>

CheckAlreadyExists ==
    /\ spc = "alreadyExists"
    /\ IF workspaceExists(worktreeWorkspaceId)
       THEN SyncReturn(SyncSkipped(mainWorkspaceId, worktreeWorkspaceId))
       ELSE spc' = "copy" /\ UNCHANGED syncResult
    /\ UNCHANGED <<tmuxVars, sessionVars, pruneVars, idVars, openVars, storeVars, platform,
                   storageOverride, folders, storage, mainWorkspaceId,
                   worktreeWorkspaceId, prevResult, storageAtStart, fsLog,
                   runs>>

\* mkdir(targetPath, {recursive: true}) on the storage.
Mkdir(st, targetId) ==
    IF IsSome(st[targetId]) THEN st
    ELSE [st EXCEPT ![targetId] = Some(EmptyDir)]

\* cp(sourcePath, targetPath, {recursive, force, filter}) of a source
\* directory into a target directory: every file but workspace.json, over
\* what the target holds; copyBackup says whether state.vscdb.backup was
\* reached.
Cp(source, target, copyDb, copyBackup) ==
    [workspaceJson |-> target.workspaceJson,
     db |-> IF copyDb /\ IsSome(source.db) THEN source.db ELSE target.db,
     backup |-> IF copyBackup /\ IsSome(source.backup)
                THEN source.backup ELSE target.backup]

\* Mutant: the source directory is moved to the target, not copied.
CopyWorkspaceStorage_Moves ==
    /\ spc = "copy"
    /\ IsSome(storage[mainWorkspaceId])
    /\ storage' = [storage EXCEPT
                     ![worktreeWorkspaceId] =
                        Some(Cp(Get(storage[mainWorkspaceId]), EmptyDir,
                                TRUE, TRUE)),
                     ![mainWorkspaceId] = None]
    /\ fsLog' = fsLog \o << Done(worktreeWorkspaceId, "mkdir", 0),
                             Done(worktreeWorkspaceId, "rename", 0) >>
    /\ spc' = "workspaceJson"
    /\ UNCHANGED <<tmuxVars, sessionVars, pruneVars, idVars, openVars, storeVars, platform,
                   storageOverride, folders, mainWorkspaceId,
                   worktreeWorkspaceId, syncResult, prevResult,
                   storageAtStart, runs>>

\* await copyWorkspaceStorage(mainWorkspaceId, worktreeWorkspaceId) resolves.
CopyWorkspaceStorage ==
    /\ spc = "copy"
    /\ IsSome(storage[mainWorkspaceId])
    /\ LET made == Mkdir(storage, worktreeWorkspaceId)
       IN  storage' =
             [made EXCEPT ![worktreeWorkspaceId] =
                Some(Cp(Get(storage[mainWorkspaceId]), Get(@), TRUE, TRUE))]
    /\ fsLog' = fsLog \o << Done(worktreeWorkspaceId, "mkdir", 0),
                             Done(worktreeWorkspaceId, "cp", 0) >>
    /\ spc' = "workspaceJson"
    /\ UNCHANGED <<tmuxVars, sessionVars, pruneVars, idVars, openVars, storeVars, platform,
                   storageOverride, folders, mainWorkspaceId,
                   worktreeWorkspaceId, syncResult, prevResult,
                   storageAtStart, runs>>

\* Mutant: a copy that fails removes the target directory it made.
CopyWorkspaceStorageFails_CleansUp ==
    /\ spc = "copy"
    /\ storage' = [storage EXCEPT ![worktreeWorkspaceId] = None]
    /\ SyncReturn(SyncFailed("ENOSPC: no space left on device"))
    /\ fsLog' = fsLog \o << Done(worktreeWorkspaceId, "mkdir", 0),
                             Done(worktreeWorkspaceId, "cp", 0),
                             Done(worktreeWorkspaceId, "rm", 0) >>
    /\ UNCHANGED <<tmuxVars, sessionVars, pruneVars, idVars, openVars, storeVars, platform,
                   storageOverride, folders, mainWorkspaceId,
                   worktreeWorkspaceId, prevResult, storageAtStart, runs>>

\* copyWorkspaceStorage rejects: the source directory is not there, or cp
\* fails after the target directory was made, before or after it copied
\* state.vscdb. The catch of syncWorkspaceState returns the message.
CopyWorkspaceStorageFails ==
    /\ spc = "copy"
    /\ LET made == Mkdir(storage, worktreeWorkspaceId)
       IN  IF IsSome(storage[mainWorkspaceId])
           THEN /\ \E copied \in BOOLEAN :
                     storage' =
                       [made EXCEPT ![worktreeWorkspaceId] =
                          Some(Cp(Get(storage[mainWorkspaceId]), Get(@),
                                  copied, FALSE))]
                /\ SyncReturn(SyncFailed("ENOSPC: no space left on device"))
           ELSE /\ storage' = made
                /\ SyncReturn(SyncFailed("ENOENT: no such file or directory"))
    /\ fsLog' = fsLog \o << Done(worktreeWorkspaceId, "mkdir", 0),
                             Done(worktreeWorkspaceId, "cp", 0) >>
    /\ UNCHANGED <<tmuxVars, sessionVars, pruneVars, idVars, openVars, storeVars, platform,
                   storageOverride, folders, mainWorkspaceId,
                   worktreeWorkspaceId, prevResult, storageAtStart, runs>>

\* await createWorkspaceJson(worktreeWorkspaceId, worktreePath)
CreateWorkspaceJson ==
    /\ spc = "workspaceJson"
    /\ storage' = [storage EXCEPT ![worktreeWorkspaceId] =
                     Some([Get(@) EXCEPT
                             !.workspaceJson = Some(FileUrl(WorktreePath))])]
    /\ fsLog' = Append(fsLog, Done("workspace.json", "writeFile", 0))
    /\ spc' = "db"
    /\ UNCHANGED <<tmuxVars, sessionVars, pruneVars, idVars, openVars, storeVars, platform,
                   storageOverride, folders, mainWorkspaceId,
                   worktreeWorkspaceId, syncResult, prevResult,
                   storageAtStart, runs>>

\* Mutant: the passes have no catch of their own, so the error of a
\* store that cannot be queried reaches the catch of syncWorkspaceState.
RewriteDb_Uncaught ==
    /\ spc = "db"
    /\ LET dir == Get(storage[worktreeWorkspaceId])
       IN  IF IsSome(dir.db) /\ Get(dir.db).corrupt
           THEN /\ SyncReturn(SyncFailed("file is not a database"))
                /\ UNCHANGED <<storage, fsLog>>
           ELSE /\ spc' = "backupDb"
                /\ UNCHANGED syncResult
                /\ IF IsSome(dir.db)
                   THEN LET out == RunPasses("state.vscdb", Get(dir.db),
                                             MainRepoPath, WorktreePath)
                        IN  /\ storage' =
                                 [storage EXCEPT ![worktreeWorkspaceId] =
                                    Some([dir EXCEPT !.db = Some(out.db)])]
                            /\ fsLog' = fsLog \o out.log
                   ELSE UNCHANGED <<storage, fsLog>>
    /\ UNCHANGED <<tmuxVars, sessionVars, pruneVars, idVars, openVars, storeVars, platform,
                   storageOverride, folders, mainWorkspaceId,
                   worktreeWorkspaceId, prevResult, storageAtStart, runs>>

\* if (await Bun.file(dbFile).exists()) { the four passes on state.vscdb }
RewriteDb ==
    /\ spc = "db"
    /\ LET dir == Get(storage[worktreeWorkspaceId])
       IN  IF IsSome(dir.db)
           THEN LET out == RunPasses("state.vscdb", Get(dir.db),
                                     MainRepoPath, WorktreePath)
                IN  /\ storage' =
                         [storage EXCEPT ![worktreeWorkspaceId] =
                            Some([dir EXCEPT !.db = Some(out.db)])]
                    /\ fsLog' = fsLog \o out.log
           ELSE UNCHANGED <<storage, fsLog>>
    /\ spc' = "backupDb"
    /\ UNCHANGED <<tmuxVars, sessionVars, pruneVars, idVars, openVars, storeVars, platform,
                   storageOverride, folders, mainWorkspaceId,
                   worktreeWorkspaceId, syncResult, prevResult,
                   storageAtStart, runs>>

\* if (await Bun.file(backupDbFile).exists()) { the four passes on
\* state.vscdb.backup }
RewriteBackupDb ==
    /\ spc = "backupDb"
    /\ LET dir == Get(storage[worktreeWorkspaceId])
       IN  IF IsSome(dir.backup)
           THEN LET out == RunPasses("state.vscdb.backup", Get(dir.backup),
                                     MainRepoPath, WorktreePath)
                IN  /\ storage' =
                         [storage EXCEPT ![worktreeWorkspaceId] =
                            Some([dir EXCEPT !.backup = Some(out.db)])]
                    /\ fsLog' = fsLog \o out.log
           ELSE UNCHANGED <<storage, fsLog>>
    /\ spc' = "done"
    /\ UNCHANGED <<tmuxVars, sessionVars, pruneVars, idVars, openVars, storeVars, platform,
                   storageOverride, folders, mainWorkspaceId,
                   worktreeWorkspaceId, syncResult, prevResult,
                   storageAtStart, runs>>

\* return { success: true, mainWorkspaceId, worktreeWorkspaceId }
ReturnSynced ==
    /\ spc = "done"
    /\ SyncReturn(SyncDone(mainWorkspaceId, worktreeWorkspaceId))
    /\ UNCHANGED <<tmuxVars, sessionVars, pruneVars, idVars, openVars, storeVars, platform,
                   storageOverride, folders, storage, mainWorkspaceId,
                   worktreeWorkspaceId, prevResult, storageAtStart, fsLog,
                   runs>>

NextSync ==
    \/ SyncStart
    \/ CheckStoragePath
    \/ ComputeMainId
    \/ CheckMainExists
    \/ ComputeWorktreeId
    \/ CheckAlreadyExists
    \/ CopyWorkspaceStorage
    \/ CopyWorkspaceStorageFails
    \/ CreateWorkspaceJson
    \/ RewriteDb
    \/ RewriteBackupDb
    \/ ReturnSynced

SpecSync == InitSync /\ [][NextSync]_vars

(***************************************************************************)
(* Reading a run of syncWorkspaceState.                                    *)
(***************************************************************************)
\* A run has started.
SyncRunning == spc # "idle"

\* The folder had an identity when the run started, and the storage root
\* held that identity's directory.
StorageExistedAtStart(folderPath) ==
    /\ folderPath \in folders
    /\ platform \in {"linux", "darwin"}
    /\ IsSome(storageAtStart[IdOn(platform, folderPath)])

\* The run has written nothing under the storage root.
NothingWritten == fsLog = <<>> /\ storage = storageAtStart

\* The run before the current one returned success.
AfterSuccessfulRun == IsSome(prevResult) /\ Get(prevResult).success

(***************************************************************************)
(* C5 as stated. A run that starts with the target identity's storage      *)
(* directory in place returns success=true, skipped=true and copies        *)
(* nothing, writes no pointer file and runs no rewrite pass; a second run  *)
(* after a successful first run leaves the target store as the first run   *)
(* left it.                                                                *)
(***************************************************************************)
C5_Original ==
    /\ (SyncRunning /\ StorageExistedAtStart(WorktreePath))
       => /\ NothingWritten
          /\ spc = "returned"
             => /\ Get(syncResult).success
                /\ Get(syncResult).skipped
    /\ (SyncRunning /\ AfterSuccessfulRun) => NothingWritten

(***************************************************************************)
(* C5, amended. A run that starts with the target identity's storage       *)
(* directory in place copies nothing, writes no pointer file and runs no   *)
(* rewrite pass; it returns success=true, skipped=true with both ids when  *)
(* the source's storage directory is in place too, and success=false when  *)
(* it is not. A second run after a successful first run leaves the target  *)
(* store as the first run left it and returns skipped.                     *)
(***************************************************************************)
C5_SkipsExistingTarget ==
    /\ (SyncRunning /\ StorageExistedAtStart(WorktreePath))
       => /\ NothingWritten
          /\ spc = "returned"
             => IF StorageExistedAtStart(MainRepoPath)
                THEN syncResult
                       = Some(SyncSkipped(IdOn(platform, MainRepoPath),
                                          IdOn(platform, WorktreePath)))
                ELSE ~Get(syncResult).success
    /\ (SyncRunning /\ AfterSuccessfulRun)
       => /\ NothingWritten
          /\ spc = "returned"
             => Get(syncResult).success /\ Get(syncResult).skipped

\* A second run has returned skipped after a first run that copied and
\* rewrote the store: the target still holds the rewritten store.
C5_Witness ==
    /\ spc = "returned"
    /\ runs = 2
    /\ platform = "linux"
    /\ prevResult
         = Some(SyncDone(IdOn(platform, MainRepoPath),
                         IdOn(platform, WorktreePath)))
    /\ syncResult
         = Some(SyncSkipped(IdOn(platform, MainRepoPath),
                            IdOn(platform, WorktreePath)))
    /\ ~IsSome(Get(storage[IdOn(platform, MainRepoPath)]).backup)
    /\ storage[IdOn(platform, WorktreePath)]
         = Some(Dir(Some(FileUrl(WorktreePath)),
                    Some(RewritePasses(Store(MainRepoPath), MainRepoPath,
                                       WorktreePath)),
                    None))

(***************************************************************************)
(* C6. A run that starts while the source folder has no storage directory  *)
(* returns success=false with an error text and changes nothing under the  *)
(* storage root: no target directory made, no pointer file written, no     *)
(* store modified. When the source folder has an identity, the error is    *)
(* the one that names the missing main repository storage.                 *)
(***************************************************************************)
C6_SourceStorageMissing ==
    (SyncRunning /\ ~StorageExistedAtStart(MainRepoPath))
    => /\ NothingWritten
       /\ spc = "returned"
          => /\ ~Get(syncResult).success
             /\ Truthy(Get(syncResult).error)
             /\ (MainRepoPath \in folders /\ platform \in {"linux", "darwin"})
                => Get(syncResult).error = MainStorageNotFound

\* The run returned the error about the main repository's storage; the
\* worktree exists and has no storage directory.
C6_Witness ==
    /\ spc = "returned"
    /\ MainRepoPath \in folders
    /\ WorktreePath \in folders
    /\ platform = "linux"
    /\ ~IsSome(storageAtStart[IdOn(platform, MainRepoPath)])
    /\ syncResult = Some(SyncFailed(MainStorageNotFound))
    /\ ~IsSome(storage[IdOn(platform, WorktreePath)])

(***************************************************************************)
(* Reading the log of a run.                                               *)
(***************************************************************************)
PrimaryFile == "state.vscdb"
BackupFile == "state.vscdb.backup"

\* The passes in the order syncWorkspaceState calls them on a store file.
PassOrder ==
    << "rewriteStatePaths", "filterMissingEditors", "clearTerminalState",
       "clearExternalAgentSessions" >>

\* The entries of the run's log for a file, in order.
EntriesOn(file) == SelectSeq(fsLog, LAMBDA e : e.file = file)

\* What was done to a file, in order.
OpsOn(file) ==
    LET es == EntriesOn(file) IN [i \in DOMAIN es |-> es[i].op]

\* The positions of the log at which an operation was done.
PositionsOf(op) == { i \in DOMAIN fsLog : fsLog[i].op = op }

\* The positions of the log at which a pass ran on a store file.
PassPositions ==
    { i \in DOMAIN fsLog : fsLog[i].file \in {PrimaryFile, BackupFile} }

\* The run has copied the directory and written the pointer file.
CopiedAndPointed == PositionsOf("cp") # {} /\ PositionsOf("writeFile") # {}

\* The run returned success without skipping.
ReturnedSynced ==
    /\ spc = "returned"
    /\ Get(syncResult).success
    /\ ~Get(syncResult).skipped

(***************************************************************************)
(* C13. In a run that is not skipped: the directory copy, then the write   *)
(* of the pointer file, then on state.vscdb the path rewrite, the editor   *)
(* pruning and the two clearing passes in this order, and only after all   *)
(* of them the same passes in the same order on state.vscdb.backup, when   *)
(* that file exists. No pass runs before the copy and the pointer write.   *)
(***************************************************************************)
C13_CopyPointerPassesInOrder ==
    SyncRunning =>
      /\ OpsOn(PrimaryFile) \in {<<>>, PassOrder}
      /\ OpsOn(BackupFile) \in {<<>>, PassOrder}
      /\ \A i \in PassPositions :
           \E c \in PositionsOf("cp"), w \in PositionsOf("writeFile") :
             c < w /\ w < i
      /\ \A i, j \in PassPositions :
           (fsLog[i].file = PrimaryFile /\ fsLog[j].file = BackupFile)
           => i < j
      /\ ReturnedSynced =>
           LET dir == Get(storage[worktreeWorkspaceId])
           IN  /\ CopiedAndPointed
               /\ OpsOn(PrimaryFile) = PassOrder <=> IsSome(dir.db)
               /\ OpsOn(BackupFile) = PassOrder <=> IsSome(dir.backup)

\* A run over a directory with both store files has returned.
C13_Witness ==
    /\ ReturnedSynced
    /\ OpsOn(PrimaryFile) = PassOrder
    /\ OpsOn(BackupFile) = PassOrder
    /\ fsLog[3].op = "writeFile"
    /\ Len(fsLog) = 11

\* The pass of an entry fails on a store: the store cannot be queried, or
\* the pass is the editor pruning and a layout row is not JSON.
FailsOn(op, db) ==
    db.corrupt \/ (op = "filterMissingEditors" /\ ~db.parses)

\* Every pass ran on a file that was copied from a store, and the failing
\* ones returned 0.
AllPassesRan(file, db) ==
    /\ OpsOn(file) = PassOrder
    /\ \A i \in DOMAIN EntriesOn(file) :
         FailsOn(EntriesOn(file)[i].op, db) => EntriesOn(file)[i].rows = 0

(***************************************************************************)
(* C14. Once the directory copy and the pointer write have succeeded, the  *)
(* run returns success=true whatever happens in the passes: a pass that    *)
(* fails on a store that cannot be queried returns 0, and every pass after *)
(* it and the backup file are still processed.                             *)
(***************************************************************************)
C14_PassFailuresAreNotErrors ==
    (SyncRunning /\ CopiedAndPointed) =>
      LET source == Get(storageAtStart[mainWorkspaceId])
      IN  /\ spc \in {"db", "backupDb", "done", "returned"}
          /\ spc = "returned" =>
               syncResult
                 = Some(SyncDone(mainWorkspaceId, worktreeWorkspaceId))
          /\ (spc \in {"backupDb", "done", "returned"} /\ IsSome(source.db))
             => AllPassesRan(PrimaryFile, Get(source.db))
          /\ (spc \in {"done", "returned"} /\ IsSome(source.backup))
             => AllPassesRan(BackupFile, Get(source.backup))

\* The primary store cannot be queried and the backup can: the run
\* returned success, the passes on the primary returned 0, and the backup
\* was rewritten.
C14_Witness ==
    /\ ReturnedSynced
    /\ CopiedAndPointed
    /\ Get(storageAtStart[mainWorkspaceId]).db = Some(CorruptStore)
    /\ \A i \in DOMAIN EntriesOn(PrimaryFile) : EntriesOn(PrimaryFile)[i].rows = 0
    /\ EntriesOn(BackupFile)[1].rows = 1
    /\ Get(Get(storage[worktreeWorkspaceId]).backup).refs = WorktreePath

(***************************************************************************)
(* filterMissingEditors on a state store.                                  *)
(***************************************************************************)
\* The two keys that may hold a layout tree.
FlatKey == "editorpart.state"
MementoKey == "memento/workbench.parts.editor"

\* A row value is a text. It is modelled by what JSON.parse makes of it
\* (valid FALSE: it throws; doc: the value parsed) and by who wrote the
\* bytes: the editor, or JSON.stringify of this program.
StoredText(doc) == [valid |-> TRUE, doc |-> Some(doc), by |-> "editor"]
InvalidText == [valid |-> FALSE, doc |-> None, by |-> "editor"]
JSONstringify(doc) ==
    [valid |-> TRUE, doc |-> Some(doc), by |-> "JSON.stringify"]

\* The parsed value of the memento key: an object that may hold
\* "editorpart.state".
Memento(state) == [editorpartState |-> state]

Branch(children) == [type |-> "branch", data |-> children]

\* A leaf group as the editor stores it before any editor is open.
StoredGroup == [EmptyGroup EXCEPT !.mru = Some(<<>>)]

\* The shapes of the stored layout trees: one group, two groups side by
\* side, a group beside two groups.
TreeShapes ==
    { Leaf(StoredGroup),
      Branch(<<Leaf(StoredGroup), Leaf(StoredGroup)>>),
      Branch(<<Leaf(StoredGroup),
               Branch(<<Leaf(StoredGroup), Leaf(StoredGroup)>>)>>) }

RECURSIVE SumSeq(_)
\* The sum of a sequence of numbers.
SumSeq(s) == IF s = <<>> THEN 0 ELSE Head(s) + SumSeq(Tail(s))

RECURSIVE LeafGroups(_)
\* The leaf groups of a tree, left to right.
LeafGroups(node) ==
    IF node.type = "branch"
    THEN LET RECURSIVE Cat(_)
             Cat(cs) == IF cs = <<>> THEN <<>>
                        ELSE LeafGroups(Head(cs)) \o Cat(Tail(cs))
         IN  Cat(node.data)
    ELSE IF node.type = "leaf" THEN <<node.data>>
    ELSE <<>>

\* The number of editors in a tree.
TreeEditors(node) ==
    LET gs == LeafGroups(node)
    IN  SumSeq([g \in DOMAIN gs |-> Len(OrElse(gs[g].editors, <<>>))])

\* The editor of a kind at position i of a group: a non-file editor, a
\* file editor of an existing file, a file editor of a missing file.
EditorOfKind(kind, i) ==
    IF kind = "other"
    THEN [id |-> "workbench.editors.git.gitEditor",
          value |-> EditorValue(EditorText(i), Undefined)]
    ELSE [id |-> FileEditorInput,
          value |-> EditorValue(EditorText(i),
                                IF kind = "existing" THEN ExistingPath(i)
                                ELSE MissingPath(i))]

EditorKinds == {"other", "existing", "missing"}

RECURSIVE OpenInLeaf(_, _, _)
\* The tree after the editor has opened an editor of a kind in its k-th
\* leaf group (left to right): the editor goes last in editors and its
\* index last in mru.
OpenInLeaf(node, k, kind) ==
    IF node.type = "leaf"
    THEN IF k # 1 THEN node
         ELSE LET n == Len(Get(node.data.editors))
              IN  Leaf([node.data EXCEPT
                          !.editors =
                             Some(Append(Get(@), EditorOfKind(kind, n + 1))),
                          !.mru = Some(Append(Get(@), n))])
    ELSE LET before(c) ==
                 SumSeq([j \in 1..(c - 1) |-> Len(LeafGroups(node.data[j]))])
         IN  Branch([c \in DOMAIN node.data |->
                       OpenInLeaf(node.data[c], k - before(c), kind)])

\* The layout tree a row holds, None when it holds none: the row is
\* missing, is not JSON, or its value has no serializedGrid root.
StateOfRow(key, row) ==
    IF ~IsSome(row) \/ ~Get(row).valid THEN None
    ELSE IF key = FlatKey THEN Get(row).doc
    ELSE Get(Get(row).doc).editorpartState

TreeOfRow(key, row) ==
    LET state == StateOfRow(key, row)
    IN  IF IsSome(state) /\ IsSome(Get(state).serializedGrid)
        THEN Get(Get(state).serializedGrid).root
        ELSE None

\* The row with the tree in it replaced, as the editor stores it.
RowWithTree(key, node) ==
    IF key = FlatKey THEN Some(StoredText(GridState(node)))
    ELSE Some(StoredText(Memento(Some(GridState(node)))))

\* The first part of filterMissingEditors: the flat key. Gives the rows,
\* the running total, the keys updated and whether JSON.parse threw.
FilterFlatKey(rows) ==
    LET topRow == rows[FlatKey]
    IN  IF ~IsSome(topRow)
        THEN [rows |-> rows, total |-> 0, updated |-> <<>>, threw |-> FALSE]
        ELSE IF ~Get(topRow).valid
        THEN [rows |-> rows, total |-> 0, updated |-> <<>>, threw |-> TRUE]
        ELSE LET out == filterEditorsInState(Get(Get(topRow).doc))
             IN  IF out.removed > 0
                 THEN [rows |-> [rows EXCEPT ![FlatKey] =
                                   Some(JSONstringify(out.state))],
                       total |-> out.removed, updated |-> <<FlatKey>>,
                       threw |-> FALSE]
                 ELSE [rows |-> rows, total |-> 0, updated |-> <<>>,
                       threw |-> FALSE]

\* The second part: the memento key, from what the first part left.
FilterMementoKey_Unconditional(top) ==
    LET memoRow == top.rows[MementoKey]
    IN  IF ~IsSome(memoRow) THEN top
        ELSE IF ~Get(memoRow).valid THEN [top EXCEPT !.threw = TRUE]
        ELSE LET memento == Get(Get(memoRow).doc)
                 editorState_ == memento.editorpartState
             IN  IF IsSome(editorState_)
                    /\ IsSome(Get(editorState_).serializedGrid)
                 THEN LET out == filterEditorsInState(Get(editorState_))
                      IN  [rows |-> [top.rows EXCEPT ![MementoKey] =
                                       Some(JSONstringify(
                                              Memento(Some(out.state))))],
                           total |-> top.total + out.removed,
                           updated |-> Append(top.updated, MementoKey),
                           threw |-> FALSE]
                 ELSE top

FilterMementoKey(top) ==
    LET memoRow == top.rows[MementoKey]
    IN  IF ~IsSome(memoRow) THEN top
        ELSE IF ~Get(memoRow).valid THEN [top EXCEPT !.threw = TRUE]
        ELSE LET memento == Get(Get(memoRow).doc)
                 editorState_ == memento.editorpartState
             IN  IF IsSome(editorState_)
                    /\ IsSome(Get(editorState_).serializedGrid)
                 THEN LET out == filterEditorsInState(Get(editorState_))
                      IN  IF out.removed > 0
                          THEN [rows |-> [top.rows EXCEPT ![MementoKey] =
                                            Some(JSONstringify(
                                                   Memento(Some(out.state))))],
                                total |-> top.total + out.removed,
                                updated |-> Append(top.updated, MementoKey),
                                threw |-> FALSE]
                          ELSE top
                 ELSE top

\* filterMissingEditors(dbPath, worktreePath) on a store: the store after
\* the call, the number returned and the keys updated. An exception from
\* opening or querying the store or from JSON.parse is caught by the one
\* outer catch, which returns 0; the writes made before it stay.
FilterStore(t) ==
    IF ~t.openable
    THEN [table |-> t, returned |-> 0, updated |-> <<>>]
    ELSE LET top == FilterFlatKey(t.rows)
         IN  IF top.threw
             THEN [table |-> t, returned |-> 0, updated |-> <<>>]
             ELSE LET memo == FilterMementoKey(top)
                  IN  [table |-> [t EXCEPT !.rows = memo.rows],
                       returned |-> IF memo.threw THEN 0 ELSE memo.total,
                       updated |-> memo.updated]

\* What a key's row may hold before any editor is open.
FlatRows ==
    { None, Some(InvalidText), Some(StoredText([serializedGrid |-> None])) }
    \cup { RowWithTree(FlatKey, shape) : shape \in TreeShapes }

MementoRows ==
    { None, Some(InvalidText), Some(StoredText(Memento(None))) }
    \cup { RowWithTree(MementoKey, shape) : shape \in TreeShapes }

\* The editors in the trees of both keys.
StoredEditors(rows) ==
    LET count(key) == IF IsSome(TreeOfRow(key, rows[key]))
                      THEN TreeEditors(Get(TreeOfRow(key, rows[key])))
                      ELSE 0
    IN  count(FlatKey) + count(MementoKey)

InitFilter ==
    /\ IdIdle
    /\ OpenIdle
    /\ TmuxIdle
    /\ SessionIdle
    /\ SyncIdle
    /\ files = { ExistingPath(i) : i \in 1..MaxStoreEditors }
    /\ editorState = None
    /\ prunedState = None
    /\ totalRemoved = 0
    /\ ppc = "idle"
    /\ \E flat \in FlatRows, memo \in MementoRows :
         table = [openable |-> TRUE,
                  rows |-> [key \in {FlatKey, MementoKey} |->
                              IF key = FlatKey THEN flat ELSE memo]]
    /\ tableAtStart = table
    /\ tpc = "stored"
    /\ passResult = 0
    /\ updated = <<>>

\* The editor opens an editor in a group of one of the stored trees.
StoreEditor ==
    /\ tpc = "stored"
    /\ StoredEditors(table.rows) < MaxStoreEditors
    /\ \E key \in {FlatKey, MementoKey} :
         LET tree == TreeOfRow(key, table.rows[key])
         IN  /\ IsSome(tree)
             /\ \E k \in 1..Len(LeafGroups(Get(tree))), kind \in EditorKinds :
                  table' = [table EXCEPT !.rows[key] =
                              RowWithTree(key,
                                          OpenInLeaf(Get(tree), k, kind))]
    /\ tableAtStart' = table'
    /\ UNCHANGED <<tmuxVars, sessionVars, pruneVars, idVars, openVars, syncVars, tpc,
                   passResult, updated>>

\* await filterMissingEditors(dbFile, worktreePath), on a store file that
\* can be queried or one that cannot (corrupt or locked).
FilterMissingEditors ==
    /\ tpc = "stored"
    /\ \E openable \in BOOLEAN :
         LET start == [table EXCEPT !.openable = openable]
             out == FilterStore(start)
         IN  /\ tableAtStart' = start
             /\ table' = out.table
             /\ passResult' = out.returned
             /\ updated' = out.updated
    /\ tpc' = "returned"
    /\ UNCHANGED <<tmuxVars, sessionVars, pruneVars, idVars, openVars, syncVars>>

NextFilter == StoreEditor \/ FilterMissingEditors

SpecFilter == InitFilter /\ [][NextFilter]_vars

(***************************************************************************)
(* Reading a pass of filterMissingEditors.                                 *)
(***************************************************************************)
LayoutKeys == {FlatKey, MementoKey}

\* The pass has returned.
PassReturned == tpc = "returned"

\* The layout tree under a key when the pass started and now, None when
\* the key holds none.
TreeAtStart(key) == TreeOfRow(key, tableAtStart.rows[key])
TreeNow(key) == TreeOfRow(key, table.rows[key])

\* The editors of all groups of an optional tree, left to right.
EditorsOfTree(tree) ==
    IF ~IsSome(tree) THEN <<>>
    ELSE LET gs == LeafGroups(Get(tree))
             RECURSIVE Cat(_)
             Cat(i) == IF i > Len(gs) THEN <<>>
                       ELSE OrElse(gs[i].editors, <<>>) \o Cat(i + 1)
         IN  Cat(1)

\* A file editor whose value names a file that is not on disk.
IsStale(editor) ==
    /\ editor.id = FileEditorInput
    /\ editor.value.path # Throws
    /\ Truthy(editor.value.path)
    /\ editor.value.path \notin files

\* The stale editors of an optional tree.
StaleEditors(tree) == SelectSeq(EditorsOfTree(tree), IsStale)

\* The editors removed from the tree under a key.
RemovedFrom(key) ==
    Len(EditorsOfTree(TreeAtStart(key))) - Len(EditorsOfTree(TreeNow(key)))

\* The keys in the log of updates.
UpdatedKeys == { updated[i] : i \in DOMAIN updated }

(***************************************************************************)
(* C11. When every file editor of the stored layout trees names an         *)
(* existing path, filterMissingEditors writes nothing (the store is as it  *)
(* was, to the byte) and returns 0; in general a layout-tree key is        *)
(* written only if at least one editor was removed from its tree.          *)
(***************************************************************************)
C11_WritesOnlyWhenRemoved ==
    PassReturned =>
      /\ (\A key \in LayoutKeys : StaleEditors(TreeAtStart(key)) = <<>>)
         => /\ table = tableAtStart
            /\ updated = <<>>
            /\ passResult = 0
      /\ \A key \in LayoutKeys :
           (key \in UpdatedKeys \/ table.rows[key] # tableAtStart.rows[key])
           => RemovedFrom(key) >= 1

\* Both keys hold a tree with file editors, all of existing files; the
\* pass returned 0 and the rows are the ones the editor wrote.
C11_Witness ==
    /\ PassReturned
    /\ table.openable
    /\ \A key \in LayoutKeys :
         /\ Len(EditorsOfTree(TreeAtStart(key))) >= 1
         /\ \A i \in DOMAIN EditorsOfTree(TreeAtStart(key)) :
              EditorsOfTree(TreeAtStart(key))[i].value.path = ExistingPath(i)
         /\ Get(table.rows[key]).by = "editor"
    /\ passResult = 0

\* The editors a key's tree held at the start that name a missing file.
StaleAtStart(key) == Len(StaleEditors(TreeAtStart(key)))

(***************************************************************************)
(* C15. The flat key and the memento key are handled independently: a row  *)
(* that is missing or is not JSON means nothing is done for that key only; *)
(* the tree under the other key is still pruned of its stale editors,      *)
(* written back and counted in the number returned.                        *)
(***************************************************************************)
C15_IndependentLocations ==
    (PassReturned /\ table.openable) =>
      /\ \A key \in LayoutKeys :
           /\ StaleEditors(TreeNow(key)) = <<>>
           /\ StaleAtStart(key) >= 1 => key \in UpdatedKeys
      /\ passResult = StaleAtStart(FlatKey) + StaleAtStart(MementoKey)

RECURSIVE Skeleton(_)
\* The shape of a tree: its branches and leaves without the groups' data.
Skeleton(node) ==
    IF node.type = "branch"
    THEN Branch([c \in DOMAIN node.data |-> Skeleton(node.data[c])])
    ELSE [type |-> node.type]

\* The shape of an optional tree.
SkeletonOf(tree) == IF IsSome(tree) THEN Some(Skeleton(Get(tree))) ELSE None

\* No branch and no leaf group of any tree was removed or restructured.
ShapeKept ==
    \A key \in LayoutKeys :
      SkeletonOf(TreeNow(key)) = SkeletonOf(TreeAtStart(key))

(***************************************************************************)
(* C16. filterMissingEditors returns the total number of editors removed   *)
(* from all leaf groups of the layout trees; no branch and no leaf group   *)
(* is removed or restructured, so an emptied group stays in the tree.      *)
(***************************************************************************)
C16_ReturnsTotalRemoved ==
    PassReturned =>
      /\ passResult = RemovedFrom(FlatKey) + RemovedFrom(MementoKey)
      /\ ShapeKept

(***************************************************************************)
(* Reading the environment of a compiled plan.                             *)
(***************************************************************************)
\* The env variables of the plan, none when env is omitted.
EnvVars == OrElse(env, <<>>)

\* The positions of the commands that create a session, a window or a pane.
Creations ==
    OfType("new-session") \cup OfType("new-window") \cup OfType("split-window")

\* args holds the pair flag, value at adjacent positions.
HasPair(args, flag, value) ==
    \E a \in 1..(Len(args) - 1) : args[a] = flag /\ args[a + 1] = value

(***************************************************************************)
(* C17. With env variables and at least one declared window, new-session   *)
(* is directly followed by exactly one set-environment per env variable,   *)
(* each with the session as its target, and the plan holds no other        *)
(* set-environment; so every set-environment comes before every send-keys, *)
(* split-window and new-window.                                            *)
(***************************************************************************)
C17_SetEnvironmentFollowsNewSession ==
    (pc = "built" /\ Len(EnvVars) >= 1 /\ Len(windows) >= 1) =>
      LET n == Len(EnvVars)
          sets == OfType("set-environment")
      IN  /\ commands[1].type = "new-session"
          /\ sets = 2..(n + 1)
          /\ \A j \in 1..n :
               Cardinality({ k \in sets :
                   commands[k].args =
                     <<"-t", sessionName, EnvVars[j].key, EnvVars[j].value>> })
                 = 1
          /\ \A k \in sets :
               \A later \in OfType("send-keys") \cup OfType("split-window")
                              \cup OfType("new-window") : k < later

\* Two env variables, two windows, and the plan holds a send-keys, a
\* split-window and a new-window.
C17_Witness ==
    /\ pc = "built"
    /\ Len(EnvVars) = 2
    /\ Len(windows) = 2
    /\ OfType("send-keys") # {}
    /\ OfType("split-window") # {}
    /\ OfType("new-window") # {}
    /\ commands[2].type = "set-environment"
    /\ commands[3].type = "set-environment"

(***************************************************************************)
(* C18. With env given, every new-session, new-window and split-window of  *)
(* the plan carries the pair -e KEY=VALUE for every env variable; with env *)
(* omitted, no command carries -e and the plan holds no set-environment.   *)
(***************************************************************************)
C18_EnvOnEveryCreation ==
    pc = "built" =>
      /\ IsSome(env) =>
           \A k \in Creations : \A j \in 1..Len(EnvVars) :
             HasPair(commands[k].args, "-e",
                     EnvVars[j].key \o "=" \o EnvVars[j].value)
      /\ ~IsSome(env) =>
           /\ \A k \in 1..Len(commands) :
                \A a \in 1..Len(commands[k].args) : commands[k].args[a] # "-e"
           /\ OfType("set-environment") = {}

\* Two env variables and a plan that holds a new-session, a new-window and
\* a split-window.
C18_Witness ==
    /\ pc = "built"
    /\ Len(EnvVars) = 2
    /\ OfType("new-window") # {}
    /\ OfType("split-window") # {}
    /\ \A k \in Creations : HasPair(commands[k].args, "-e", "WCT_BRANCH=feat")

(***************************************************************************)
(* Reading the session targets passed to tmux.                             *)
(***************************************************************************)
\* The targets of the commands createSession has started: the argument
\* after -t (new-session names its session with -s and has no target).
IssuedTargets ==
    { ArgAfter(issued[k].args, "-t") : k \in DOMAIN issued } \ {Undefined}

\* The targets of the existence checks.
CheckedTargets == { checked[i] : i \in DOMAIN checked }

\* The session and its declared windows as targets, without a prefix.
BareTargets ==
    {sessionName} \cup { WindowTarget(i) : i \in 1..Len(windows) }

\* The same targets with the prefix = in front.
PrefixedTargets == { "=" \o target : target \in BareTargets }

\* The plan's new-session has created the session of exactly this name.
SessionCreated ==
    /\ server[sessionName] # <<>>
    /\ Head(server[sessionName]).type = "new-session"
    /\ ArgAfter(Head(server[sessionName]).args, "-s") = sessionName

(***************************************************************************)
(* C19 as stated. Every session target passed to tmux, by a compiled       *)
(* command as by an existence check, starts with the prefix =.             *)
(***************************************************************************)
C19_Original ==
    \A target \in IssuedTargets \cup CheckedTargets :
      target \in PrefixedTargets

(***************************************************************************)
(* C19 as amended. Every existence check passes =session. The compiled     *)
(* commands pass session or session:window without the prefix, and each is *)
(* started only after the plan's new-session has created the session of    *)
(* exactly that name.                                                      *)
(***************************************************************************)
C19_ExactChecksBareCommands ==
    /\ \A target \in CheckedTargets : target = "=" \o sessionName
    /\ \A target \in IssuedTargets : target \in BareTargets
    /\ IssuedTargets # {} => SessionCreated

\* Next to a session whose name has the plan's session name as a prefix,
\* the existence check was made and a command with a target was started.
C19_Witness ==
    /\ server["app2"] # <<>>
    /\ sessionName = "app"
    /\ checked # <<>>
    /\ Len(windows) >= 1
    /\ sessionName \in IssuedTargets
    /\ WindowTarget(1) \in IssuedTargets

(***************************************************************************)
(* rewriteStatePaths on a state store. A text is the sequence of its       *)
(* characters.                                                             *)
(***************************************************************************)
\* The old and the new folder path: the new one starts with the old one,
\* as a worktree beside its repository does.
OldPath == <<"/", "r">>
NewPath == <<"/", "r", "w">>

\* p is a prefix of text.
StartsWith(text, p) ==
    Len(p) <= Len(text) /\ SubSeq(text, 1, Len(p)) = p

RECURSIVE replaceAll(_, _, _)
\* text.replaceAll(search, replacement) for a non-empty search: the
\* occurrences are found left to right and do not overlap; what was
\* inserted is not searched again.
replaceAll(text, search, replacement) ==
    IF text = <<>> THEN <<>>
    ELSE IF StartsWith(text, search)
    THEN replacement
           \o replaceAll(SubSeq(text, Len(search) + 1, Len(text)),
                         search, replacement)
    ELSE <<Head(text)>> \o replaceAll(Tail(text), search, replacement)

\* path.replaceAll("/", "%2F")
Encoded(path) == replaceAll(path, <<"/">>, <<"%", "2", "F">>)

\* The letter SQLite's LIKE compares: the ASCII letters without their case.
Fold(c) == IF c = "R" THEN "r" ELSE IF c = "F" THEN "f" ELSE c

RECURSIVE Like(_, _)
\* value LIKE pattern in SQLite: % in the pattern stands for any text, _ for
\* any one character, and every other character for itself in either case.
Like(text, pattern) ==
    IF pattern = <<>> THEN text = <<>>
    ELSE IF Head(pattern) = "%"
    THEN Like(text, Tail(pattern))
           \/ (text # <<>> /\ Like(Tail(text), pattern))
    ELSE /\ text # <<>>
         /\ Head(pattern) = "_" \/ Fold(Head(pattern)) = Fold(Head(text))
         /\ Like(Tail(text), Tail(pattern))

\* The keys of the store's rows, in the order the query gives them.
RowKeys == <<"a", "b">>

\* rewriteStatePaths(dbPath, oldPath, newPath) on a store: the store after
\* the call, the number returned and the keys updated. A store that
\* cannot be queried throws into the catch, which returns 0.
RewriteStore(t, oldPath, newPath) ==
    IF ~t.openable
    THEN [table |-> t, returned |-> 0, updated |-> <<>>]
    ELSE LET encodedOld == Encoded(oldPath)
             encodedNew == Encoded(newPath)
             selected(key) ==
                 \/ Like(t.rows[key], <<"%">> \o oldPath \o <<"%">>)
                 \/ Like(t.rows[key], <<"%">> \o encodedOld \o <<"%">>)
             rows == SelectSeq(RowKeys, selected)
             replaced(key) ==
                 replaceAll(replaceAll(t.rows[key], oldPath, newPath),
                            encodedOld, encodedNew)
         IN  [table |-> [t EXCEPT !.rows =
                           [key \in DOMAIN t.rows |->
                              IF selected(key) THEN replaced(key)
                              ELSE t.rows[key]]],
              returned |-> Len(rows),
              updated |-> rows]

\* The pieces the editor writes into a value: the old path, the old path
\* in another letter case, the encoded old path, the encoded old path
\* without its percent sign, and other text.
TextPieces ==
    { OldPath, <<"/", "R">>, Encoded(OldPath), <<"2", "F", "r">>,
      <<"x">>, <<"w">> }

\* The characters in all values of the rows.
StoredChars(rows) == Len(rows["a"]) + Len(rows["b"])

InitRewrite ==
    /\ IdIdle
    /\ OpenIdle
    /\ TmuxIdle
    /\ SessionIdle
    /\ PruneIdle
    /\ SyncIdle
    /\ table = [openable |-> TRUE, rows |-> [key \in {"a", "b"} |-> <<>>]]
    /\ tableAtStart = table
    /\ tpc = "stored"
    /\ passResult = 0
    /\ updated = <<>>

\* The editor writes a piece of text at the end of a row's value.
StoreText ==
    /\ tpc = "stored"
    /\ \E key \in {"a", "b"}, piece \in TextPieces :
         /\ StoredChars(table.rows) + Len(piece) <= MaxTextLen
         /\ table' = [table EXCEPT !.rows[key] = @ \o piece]
    /\ tableAtStart' = table'
    /\ UNCHANGED <<tmuxVars, sessionVars, pruneVars, idVars, openVars, syncVars, tpc,
                   passResult, updated>>

\* rewriteStatePaths(dbFile, OldPath, NewPath), on a store file that can be
\* queried or one that cannot.
RewriteStatePaths ==
    /\ tpc = "stored"
    /\ \E openable \in BOOLEAN :
         LET start == [table EXCEPT !.openable = openable]
             out == RewriteStore(start, OldPath, NewPath)
         IN  /\ tableAtStart' = start
             /\ table' = out.table
             /\ passResult' = out.returned
             /\ updated' = out.updated
    /\ tpc' = "returned"
    /\ UNCHANGED <<tmuxVars, sessionVars, pruneVars, idVars, openVars, syncVars>>

\* rewriteStatePaths(dbFile, OldPath, NewPath) once more on the store the
\* first call left, the store file as it was then.
RewriteStatePathsAgain ==
    /\ tpc = "returned"
    /\ LET out == RewriteStore(table, OldPath, NewPath)
       IN  /\ tableAtStart' = table
           /\ table' = out.table
           /\ passResult' = out.returned
           /\ updated' = out.updated
    /\ tpc' = "repeated"
    /\ UNCHANGED <<tmuxVars, sessionVars, pruneVars, idVars, openVars,
                   syncVars>>

NextRewrite == StoreText \/ RewriteStatePaths \/ RewriteStatePathsAgain

SpecRewrite == InitRewrite /\ [][NextRewrite]_vars

(***************************************************************************)
(* Reading a pass of rewriteStatePaths.                                    *)
(***************************************************************************)
RECURSIVE Contains(_, _)
\* The text holds the string, letter for letter.
Contains(text, string) ==
    /\ Len(text) >= Len(string)
    /\ StartsWith(text, string) \/ Contains(Tail(text), string)

\* The value holds the old path or the encoded old path.
HoldsOldPath(text) ==
    Contains(text, OldPath) \/ Contains(text, Encoded(OldPath))

RECURSIVE Substituted(_)
\* The text with every occurrence of the old path replaced by the new path
\* and every occurrence of the encoded old path by the encoded new path.
Substituted(text) ==
    IF text = <<>> THEN <<>>
    ELSE IF StartsWith(text, OldPath)
    THEN NewPath \o Substituted(SubSeq(text, Len(OldPath) + 1, Len(text)))
    ELSE IF StartsWith(text, Encoded(OldPath))
    THEN Encoded(NewPath)
           \o Substituted(SubSeq(text, Len(Encoded(OldPath)) + 1, Len(text)))
    ELSE <<Head(text)>> \o Substituted(Tail(text))

\* Every value is the value at the start with both forms of the old path
\* replaced; a value that held neither form is as it was.
ValuesRewritten ==
    \A key \in DOMAIN table.rows :
      /\ table.rows[key] = Substituted(tableAtStart.rows[key])
      /\ ~HoldsOldPath(tableAtStart.rows[key])
         => table.rows[key] = tableAtStart.rows[key]

\* The rows whose value was rewritten: it held a form of the old path.
RewrittenRows ==
    { key \in DOMAIN table.rows : HoldsOldPath(tableAtStart.rows[key]) }

(***************************************************************************)
(* C12. After rewriteStatePaths on a store that can be queried, every      *)
(* value has every occurrence of the old path replaced by the new path and *)
(* every occurrence of the encoded old path by the encoded new path, a     *)
(* value that held neither form is unchanged, and the number returned is   *)
(* the number of rows whose value was rewritten.                           *)
(***************************************************************************)
C12_RewritesAndCounts ==
    (tpc = "returned" /\ table.openable) =>
      /\ ValuesRewritten
      /\ passResult = Cardinality(RewrittenRows)

(***************************************************************************)
(* clearTerminalState and clearExternalAgentSessions on a state store.     *)
(***************************************************************************)
TERMINAL_KEYS_TO_CLEAR ==
    << "terminal", "terminal.integrated.layoutInfo",
       "terminal.numberOfVisibleViews" >>

AGENT_SESSION_KEYS_TO_CLEAR ==
    << "agentSessions.state.cache", "agentSessions.readDateBaseline2" >>

ChatIndexKey == "chat.ChatSessionStore.index"

\* Keys of the store that no pass names: one of the terminal, one of the
\* agent sessions, one of neither.
OtherKeys ==
    { "terminal.integrated.environmentVariableCollections",
      "agentSessions.model.cache", "workbench.explorer.views.state" }

\* The elements of a sequence.
Range(seq) == { seq[i] : i \in DOMAIN seq }

\* The keys of the store in the order of its rows.
StoreKeys ==
    TERMINAL_KEYS_TO_CLEAR \o AGENT_SESSION_KEYS_TO_CLEAR
      \o << ChatIndexKey, "terminal.integrated.environmentVariableCollections",
            "agentSessions.model.cache", "workbench.explorer.views.state" >>

\* The keys of a list that have a row, in the order of the rows.
PresentOf(rows, keys) == SelectSeq(StoreKeys, LAMBDA key :
                                     key \in Range(keys) /\ IsSome(rows[key]))

\* The rows without the rows of the keys: DELETE FROM ItemTable WHERE key
\* IN (keys).
Deleted(rows, keys) ==
    [key \in DOMAIN rows |-> IF key \in Range(keys) THEN None ELSE rows[key]]

\* Mutant: every row of the terminal is deleted, also the one the list
\* does not name.
ClearTerminal_AllTerminalRows(t) ==
    IF ~t.openable
    THEN [table |-> t, returned |-> 0, updated |-> <<>>]
    ELSE LET keys ==
                 Append(TERMINAL_KEYS_TO_CLEAR,
                        "terminal.integrated.environmentVariableCollections")
         IN  [table |-> [t EXCEPT !.rows = Deleted(t.rows, keys)],
              returned |-> Len(PresentOf(t.rows, keys)),
              updated |-> PresentOf(t.rows, keys)]

\* clearTerminalState(dbPath) on a store: the store after the call, the
\* number returned (result.changes) and the keys deleted.
ClearTerminal(t) ==
    IF ~t.openable
    THEN [table |-> t, returned |-> 0, updated |-> <<>>]
    ELSE [table |-> [t EXCEPT !.rows =
                       Deleted(t.rows, TERMINAL_KEYS_TO_CLEAR)],
          returned |-> Len(PresentOf(t.rows, TERMINAL_KEYS_TO_CLEAR)),
          updated |-> PresentOf(t.rows, TERMINAL_KEYS_TO_CLEAR)]

\* An entry of the chat session index; isExternal is "true", "false" or
\* Undefined when the entry has no such field.
ChatEntry(id, isExternal) ==
    [sessionId |-> id, isExternal |-> isExternal]

\* The entries of an index that are flagged external.
ExternalIds(entries) ==
    { id \in DOMAIN entries : entries[id].isExternal = "true" }

\* Mutant: the index row is written whether or not the store had one, as
\* INSERT OR REPLACE would.
ClearAgents_WritesIndex(t) ==
    IF ~t.openable
    THEN [table |-> t, returned |-> 0, updated |-> <<>>]
    ELSE LET deleted == Deleted(t.rows, AGENT_SESSION_KEYS_TO_CLEAR)
             changes == PresentOf(t.rows, AGENT_SESSION_KEYS_TO_CLEAR)
         IN  [table |-> [t EXCEPT !.rows =
                           [deleted EXCEPT ![ChatIndexKey] =
                              Some(JSONstringify([entries |-> None]))]],
              returned |-> Len(changes) + 1,
              updated |-> Append(changes, ChatIndexKey)]

\* clearExternalAgentSessions(dbPath) on a store. The rows of the agent
\* session keys are deleted first; JSON.parse of the index row that throws
\* reaches the catch, which returns 0 and leaves the deletions in place.
ClearAgents(t) ==
    IF ~t.openable
    THEN [table |-> t, returned |-> 0, updated |-> <<>>]
    ELSE LET deleted == Deleted(t.rows, AGENT_SESSION_KEYS_TO_CLEAR)
             changes == PresentOf(t.rows, AGENT_SESSION_KEYS_TO_CLEAR)
             row == t.rows[ChatIndexKey]
         IN  IF ~IsSome(row)
             THEN [table |-> [t EXCEPT !.rows = deleted],
                   returned |-> Len(changes), updated |-> changes]
             ELSE IF ~Get(row).valid
             THEN [table |-> [t EXCEPT !.rows = deleted],
                   returned |-> 0, updated |-> changes]
             ELSE LET data == Get(Get(row).doc)
                      external == IF IsSome(data.entries)
                                  THEN ExternalIds(Get(data.entries))
                                  ELSE {}
                      removed == Cardinality(external)
                  IN  IF removed > 0
                      THEN LET entries == Get(data.entries)
                               kept ==
                                 [id \in DOMAIN entries \ external |->
                                    entries[id]]
                           IN  [table |->
                                  [t EXCEPT !.rows =
                                     [deleted EXCEPT ![ChatIndexKey] =
                                        Some(JSONstringify(
                                          [data EXCEPT
                                             !.entries = Some(kept)]))]],
                                returned |-> Len(changes) + removed,
                                updated |-> Append(changes, ChatIndexKey)]
                      ELSE [table |-> [t EXCEPT !.rows = deleted],
                            returned |-> Len(changes), updated |-> changes]

\* What the chat session index row may hold: no row, text that is not
\* JSON, an object without entries, or entries for some session ids.
ChatIndexRows ==
    { None, Some(InvalidText), Some(StoredText([entries |-> None])) }
    \cup { Some(StoredText([entries |-> Some(
                  [id \in ids |-> ChatEntry(id, flag[id])])])) :
             ids \in SUBSET (1..MaxSessions),
             flag \in [1..MaxSessions -> {"true", "false", Undefined}] }

InitClear ==
    /\ IdIdle
    /\ OpenIdle
    /\ TmuxIdle
    /\ SessionIdle
    /\ PruneIdle
    /\ SyncIdle
    /\ \E present \in SUBSET (Range(StoreKeys) \ {ChatIndexKey}),
          index \in ChatIndexRows :
         table = [openable |-> TRUE,
                  rows |-> [key \in Range(StoreKeys) |->
                              IF key = ChatIndexKey THEN index
                              ELSE IF key \in present
                              THEN Some(StoredText("value of " \o key))
                              ELSE None]]
    /\ tableAtStart = table
    /\ tpc = "stored"
    /\ passResult = 0
    /\ updated = <<>>

\* A pass on the store file, which can be queried or cannot.
RunPass(pass(_), done) ==
    /\ \E openable \in BOOLEAN :
         LET start == [table EXCEPT !.openable = openable]
             out == pass(start)
         IN  /\ tableAtStart' = start
             /\ table' = out.table
             /\ passResult' = out.returned
             /\ updated' = out.updated
    /\ tpc' = done
    /\ UNCHANGED <<tmuxVars, sessionVars, pruneVars, idVars, openVars, syncVars>>

\* clearTerminalState(dbFile)
ClearTerminalState ==
    /\ tpc = "stored"
    /\ RunPass(ClearTerminal, "terminalCleared")

\* clearExternalAgentSessions(dbFile), alone or after clearTerminalState
\* as in syncWorkspaceState.
ClearExternalAgentSessions ==
    /\ tpc \in {"stored", "terminalCleared"}
    /\ RunPass(ClearAgents, "agentsCleared")

NextClear == ClearTerminalState \/ ClearExternalAgentSessions

SpecClear == InitClear /\ [][NextClear]_vars

(***************************************************************************)
(* Reading a clearing pass.                                                *)
(***************************************************************************)
\* The entries of the index in a row, none when the row is missing, is not
\* JSON or holds no entries.
EntriesOf(row) ==
    IF IsSome(row) /\ Get(row).valid /\ IsSome(Get(Get(row).doc).entries)
    THEN Get(Get(Get(row).doc).entries)
    ELSE <<>>

\* The rows of all keys but the given ones are as they were at the start.
OthersUnchanged(keys) ==
    \A key \in DOMAIN table.rows \ keys :
      table.rows[key] = tableAtStart.rows[key]

\* Every key of the list has no row.
AllDeleted(keys) == \A key \in Range(keys) : ~IsSome(table.rows[key])

\* The index lost only entries flagged external: every other entry is there
\* with its value, no entry was added, and a row that lost no entry is as
\* it was.
OnlyExternalRemoved ==
    LET before == EntriesOf(tableAtStart.rows[ChatIndexKey])
        after == EntriesOf(table.rows[ChatIndexKey])
    IN  /\ DOMAIN after \subseteq DOMAIN before
        /\ \A id \in DOMAIN before :
             IF before[id].isExternal = "true"
             THEN id \in DOMAIN after => after[id] = before[id]
             ELSE id \in DOMAIN after /\ after[id] = before[id]
        /\ DOMAIN after = DOMAIN before
           => table.rows[ChatIndexKey] = tableAtStart.rows[ChatIndexKey]

(***************************************************************************)
(* C20. clearTerminalState deletes the three terminal keys and changes no  *)
(* other row; clearExternalAgentSessions deletes the two agent session     *)
(* cache keys, removes from the chat session index only entries flagged    *)
(* external, and changes no other row and no other entry. A pass on a      *)
(* store that cannot be queried changes nothing.                           *)
(***************************************************************************)
C20_ClearsOnlyItsOwnEntries ==
    /\ tpc = "terminalCleared" =>
         IF table.openable
         THEN /\ AllDeleted(TERMINAL_KEYS_TO_CLEAR)
              /\ OthersUnchanged(Range(TERMINAL_KEYS_TO_CLEAR))
              /\ Range(updated) \subseteq Range(TERMINAL_KEYS_TO_CLEAR)
         ELSE table = tableAtStart
    /\ tpc = "agentsCleared" =>
         IF table.openable
         THEN /\ AllDeleted(AGENT_SESSION_KEYS_TO_CLEAR)
              /\ OthersUnchanged(Range(AGENT_SESSION_KEYS_TO_CLEAR)
                                   \cup {ChatIndexKey})
              /\ OnlyExternalRemoved
              /\ Range(updated) \subseteq
                   Range(AGENT_SESSION_KEYS_TO_CLEAR) \cup {ChatIndexKey}
         ELSE table = tableAtStart

\* A store with rows of every key and an index of an external and another
\* session: after clearExternalAgentSessions the index holds the other
\* session only and the rows no pass names are there.
C20_Witness ==
    /\ tpc = "agentsCleared"
    /\ table.openable
    /\ \A key \in Range(StoreKeys) : IsSome(tableAtStart.rows[key])
    /\ ExternalIds(EntriesOf(tableAtStart.rows[ChatIndexKey])) = {1}
    /\ DOMAIN EntriesOf(tableAtStart.rows[ChatIndexKey]) = {1, 2}
    /\ DOMAIN EntriesOf(table.rows[ChatIndexKey]) = {2}
    /\ \A key \in OtherKeys \cup Range(TERMINAL_KEYS_TO_CLEAR) :
         IsSome(table.rows[key])

\* The rows a pass deleted, and the rows whose value it changed.
RowsDeleted ==
    { key \in DOMAIN table.rows :
        IsSome(tableAtStart.rows[key]) /\ ~IsSome(table.rows[key]) }

RowsModified ==
    { key \in DOMAIN table.rows :
        /\ IsSome(tableAtStart.rows[key])
        /\ IsSome(table.rows[key])
        /\ table.rows[key] # tableAtStart.rows[key] }

(***************************************************************************)
(* C21. clearTerminalState and clearExternalAgentSessions return the       *)
(* number of rows affected, the rows deleted plus the rows whose value was *)
(* modified, and 0 on a store that cannot be queried.                      *)
(***************************************************************************)
C21_ReturnsRowsAffected ==
    tpc \in {"terminalCleared", "agentsCleared"} =>
      passResult = IF table.openable
                   THEN Cardinality(RowsDeleted) + Cardinality(RowsModified)
                   ELSE 0

\* The pass that returned ended in its catch: the store could not be
\* queried, or clearExternalAgentSessions found an index row that is not
\* JSON.
CaughtFailure ==
    \/ ~tableAtStart.openable
    \/ /\ tpc = "agentsCleared"
       /\ IsSome(tableAtStart.rows[ChatIndexKey])
       /\ ~Get(tableAtStart.rows[ChatIndexKey]).valid

(***************************************************************************)
(* C28. A clearing pass that returns 0 from its catch (store that cannot   *)
(* be queried, value that is not JSON) has modified and deleted no row.    *)
(***************************************************************************)
C28_FailedPassHasNoEffect ==
    (tpc \in {"terminalCleared", "agentsCleared"} /\ CaughtFailure) =>
      /\ passResult = 0
      /\ RowsDeleted = {}
      /\ RowsModified = {}

\* The keys that have a row in a store.
KeysOf(t) == { key \in DOMAIN t.rows : IsSome(t.rows[key]) }

AfterFailedCopy ==
    /\ IsSome(prevResult)
    /\ Get(prevResult).error \in { "ENOSPC: no space left on device",
                                   "ENOENT: no such file or directory" }

(***************************************************************************)
(* C24. The run after a run whose copy failed once the target directory    *)
(* was made finds that directory and returns success=true, skipped=true:   *)
(* it copies nothing, writes no pointer file and runs no rewrite pass, so  *)
(* the directory stays as the failed copy left it, without a pointer file. *)
(***************************************************************************)
C24_PartialCopyIsSkipped ==
    (spc = "returned" /\ AfterFailedCopy) =>
      /\ syncResult = Some(SyncSkipped(mainWorkspaceId, worktreeWorkspaceId))
      /\ NothingWritten
      /\ IsSome(storage[worktreeWorkspaceId])
      /\ ~IsSome(Get(storage[worktreeWorkspaceId]).workspaceJson)

\* The second run returned after a first run whose copy broke off having
\* copied state.vscdb: the copy still names the main repository, and the
\* source has a backup store that never arrived.
C24_Witness ==
    /\ spc = "returned"
    /\ runs = 2
    /\ AfterFailedCopy
    /\ Get(syncResult).skipped
    /\ IsSome(Get(storage[worktreeWorkspaceId]).db)
    /\ Get(Get(storage[worktreeWorkspaceId]).db).refs = MainRepoPath
    /\ IsSome(Get(storage[mainWorkspaceId]).backup)
    /\ ~IsSome(Get(storage[worktreeWorkspaceId]).backup)

(***************************************************************************)
(* C29. At every step of a run of syncWorkspaceState each storage          *)
(* directory that was there at the start is still there, and every         *)
(* directory but the target identity's, the source's among them, holds     *)
(* what it held at the start.                                              *)
(***************************************************************************)
C29_SourceUntouched ==
    /\ \A id \in StorageIds :
         IsSome(storageAtStart[id]) => IsSome(storage[id])
    /\ \A id \in StorageIds \ {worktreeWorkspaceId} :
         storage[id] = storageAtStart[id]

\* A run that copied, wrote the pointer file and ran the passes: the
\* target's store names the worktree, and the source directory, its store
\* naming the main repository, is as it was.
C29_Witness ==
    /\ spc = "returned"
    /\ syncResult = Some(SyncDone(mainWorkspaceId, worktreeWorkspaceId))
    /\ ~IsSome(storageAtStart[worktreeWorkspaceId])
    /\ IsSome(Get(storage[mainWorkspaceId]).db)
    /\ Get(Get(storage[worktreeWorkspaceId]).db).refs = WorktreePath
    /\ Get(Get(storage[mainWorkspaceId]).db).refs = MainRepoPath
    /\ storage[mainWorkspaceId] = storageAtStart[mainWorkspaceId]

\* The positions of the commands whose target is declared window i.
Addressed(i) ==
    { k \in 1..Len(commands) :
        ArgAfter(commands[k].args, "-t") = WindowTarget(i) }

\* One new-window for each window after the first, in declaration order.
NewWindowsInOrder ==
    /\ Cardinality(OfType("new-window")) = Len(windows) - 1
    /\ \A i \in 2..Len(windows) :
         ArgAfter(commands[Nth(OfType("new-window"), i - 1)].args, "-n")
           = windows[i].name

\* The positions S of commands of window i lie after the command that
\* creates the window and before the new-window of the next window.
WithinWindow(S, i) ==
    \A k \in S :
      /\ k > Creation(i)
      /\ i < Len(windows) => k < Creation(i + 1)

(***************************************************************************)
(* C27 as stated. One new-window for each window of index >= 1, in         *)
(* declaration order, and every command addressed to a window lies after   *)
(* the command that creates the window and before the new-window of the    *)
(* next window.                                                            *)
(***************************************************************************)
C27_Original ==
    (pc = "built" /\ Len(windows) >= 1) =>
      /\ NewWindowsInOrder
      /\ \A i \in 1..Len(windows) : WithinWindow(Addressed(i), i)

(***************************************************************************)
(* C27. One new-window for each window of index >= 1, in declaration       *)
(* order, and every send-keys, split-window and select-layout addressed    *)
(* to a window lies after the command that creates the window and before   *)
(* the new-window of the next window. The closing select-window, addressed *)
(* to the first window, is the only other command addressed to a window.   *)
(***************************************************************************)
C27_WindowsNotInterleaved ==
    (pc = "built" /\ Len(windows) >= 1) =>
      /\ NewWindowsInOrder
      /\ \A i \in 1..Len(windows) :
           /\ WithinWindow(PaneCmds(i), i)
           /\ Addressed(i) \ PaneCmds(i) =
                IF i = 1 THEN {Len(commands)} ELSE {}

\* A plan of two windows that both have pane commands, the second a split.
C27_Witness ==
    /\ pc = "built"
    /\ Len(windows) = 2
    /\ Cardinality(PaneCmds(1)) >= 1
    /\ Cardinality(PaneCmds(2)) >= 2
    /\ OfType("new-window") # {}

\* tmux holds the session with a proper, non-empty prefix of its plan
\* applied: new-session succeeded and a later command never ran.
SessionIncomplete ==
    LET plan == buildWindowsPaneCommands(sessionName, WorkingDir, windows,
                                         env)
        done == server[sessionName]
    IN  /\ Len(done) >= 1
        /\ Len(done) < Len(plan)
        /\ done = SubSeq(plan, 1, Len(done))

(***************************************************************************)
(* C30. createSession goes on to compile and replay only when no session   *)
(* of the name exists; when one exists it issues no command and returns    *)
(* success=true, alreadyExists=true. So the call after a replay that       *)
(* failed part-way reports success, issues none of the commands that       *)
(* never ran, and the session stays incomplete.                            *)
(***************************************************************************)
C30_ExistingSessionIsLeftAlone ==
    /\ pc = "build" => server[sessionName] = <<>>
    /\ (pc = "returned" /\ IsSome(result) /\ Get(result).alreadyExists) =>
         /\ Get(result).success
         /\ issued = <<>>
         /\ commands = <<>>
    /\ (pc = "returned" /\ thrown = Undefined /\ SessionIncomplete) =>
         /\ result = Some(AlreadyExistsResult(sessionName))
         /\ issued = <<>>

\* The second call has returned after a first call whose replay stopped in
\* the middle of a plan of two windows: the second window was never made.
C30_Witness ==
    /\ pc = "returned"
    /\ calls = 2
    /\ thrown = Undefined
    /\ SessionIncomplete
    /\ Len(windows) = 2
    /\ Len(server[sessionName]) >= 2
    /\ result = Some(AlreadyExistsResult(sessionName))
    /\ \A k \in 1..Len(server[sessionName]) :
         server[sessionName][k].type # "new-window"

(***************************************************************************)
(* computeWorkspaceId on a host with folders of any stat.                  *)
(***************************************************************************)
\* The folders asked about: the path of one is the start of another's.
IdPaths == {"/a", "/a1", "/b"}

\* What stat reports of a folder that exists: inode, and birth time as
\* whole seconds and nanoseconds left. The birth times of the second and
\* third round to the same millisecond.
FolderStats ==
    { [ino |-> 23, birthSec |-> 700, birthNsec |-> 123000000],
      [ino |-> 123, birthSec |-> 1700, birthNsec |-> 123000000],
      [ino |-> 124, birthSec |-> 1700, birthNsec |-> 122600000] }

\* computeWorkspaceId(folderPath) on the host: stat rejects for a folder
\* that is not there; ctime is the local of that name.
WorkspaceIdOf(folderPath) ==
    IF ~IsSome(fsStats[folderPath])
    THEN [folderPath |-> folderPath, threw |-> TRUE, ctime |-> Undefined,
          value |-> "ENOENT: no such file or directory, stat '"
                      \o folderPath \o "'"]
    ELSE IF hostPlatform \in {"linux", "darwin"}
    THEN LET ctime == Ctime(hostPlatform, Get(fsStats[folderPath]))
         IN  [folderPath |-> folderPath, threw |-> FALSE, ctime |-> ctime,
              value |-> Md5(folderPath, ctime)]
    ELSE [folderPath |-> folderPath, threw |-> TRUE, ctime |-> Undefined,
          value |-> "Unsupported platform: " \o hostPlatform]

InitIds ==
    /\ TmuxIdle
    /\ SessionIdle
    /\ PruneIdle
    /\ SyncIdle
    /\ StoreIdle
    /\ OpenIdle
    /\ hostPlatform \in {"linux", "darwin", "win32"}
    /\ fsStats \in [IdPaths -> {None} \cup { Some(st) : st \in FolderStats }]
    /\ idCalls = <<>>

\* await computeWorkspaceId(folderPath)
ComputeWorkspaceId ==
    /\ Len(idCalls) < MaxIdCalls
    /\ \E folderPath \in IdPaths :
         idCalls' = Append(idCalls, WorkspaceIdOf(folderPath))
    /\ UNCHANGED <<tmuxVars, sessionVars, pruneVars, syncVars, storeVars,
                   openVars, hostPlatform, fsStats>>

NextIds == ComputeWorkspaceId

SpecIds == InitIds /\ [][NextIds]_vars

\* The calls that returned an id.
Returned == { k \in DOMAIN idCalls : ~idCalls[k].threw }

\* The text a call hashed: the path followed by the fingerprint.
Hashed(k) == idCalls[k].folderPath \o idCalls[k].ctime

C25_PassIsIdempotent ==
    tpc = "repeated" => table = tableAtStart

(***************************************************************************)
(* commands/open: openCommand, the workflow around the migration and the   *)
(* session.                                                                *)
(***************************************************************************)
\* ok() and err(message, code); the message is left out.
OkResult == [success |-> TRUE, code |-> Undefined]
ErrResult(code) == [success |-> FALSE, code |-> code]

\* The optional ide section of a configuration.
IdeConfigs ==
    {None}
    \cup { Some([name |-> n, fork_workspace |-> f, command |-> c]) :
             n \in {Undefined, "cursor"}, f \in BOOLEAN,
             c \in {Undefined, "code $WCT_WORKTREE_DIR"} }

\* The configurations loadConfig returns.
OpenConfigs ==
    { [ide |-> i, copy |-> c, setup |-> s, tmux |-> t] :
        i \in IdeConfigs,
        c \in {None, Some(<<>>), Some(<<".env">>)},
        s \in {None, Some(<<"bun install">>)},
        t \in BOOLEAN }

\* A service was called, and how it ended; a line of the log about it.
Step(name, success) == [step |-> name, success |-> success]
Log(level, name) == [level |-> level, step |-> name]

InitOpen ==
    /\ TmuxIdle
    /\ SessionIdle
    /\ PruneIdle
    /\ SyncIdle
    /\ StoreIdle
    /\ IdIdle
    /\ options \in [existing : BOOLEAN, base : BOOLEAN, noIde : BOOLEAN]
    /\ config \in OpenConfigs
    /\ opc = "idle"
    /\ steps = <<>>
    /\ logs = <<>>
    /\ openResult = None

\* return result, from anywhere in openCommand.
OpenReturn(r) ==
    /\ openResult' = Some(r)
    /\ opc' = "returned"

\* openCommand up to createWorktree: the checks of the repository, the
\* configuration, the options and the branches, each with its early return.
OpenPreflight ==
    /\ opc = "idle"
    /\ \E isGitRepo, mainDir, loaded, exists, baseExists \in BOOLEAN :
         IF ~isGitRepo THEN OpenReturn(ErrResult("not_git_repo"))
         ELSE IF ~mainDir THEN OpenReturn(ErrResult("worktree_error"))
         ELSE IF ~loaded THEN OpenReturn(ErrResult("config_error"))
         ELSE IF options.existing /\ options.base
         THEN OpenReturn(ErrResult("invalid_options"))
         ELSE IF options.existing /\ ~exists
         THEN OpenReturn(ErrResult("branch_not_found"))
         ELSE IF options.base /\ ~baseExists
         THEN OpenReturn(ErrResult("base_branch_not_found"))
         ELSE opc' = "worktree" /\ UNCHANGED openResult
    /\ UNCHANGED <<tmuxVars, sessionVars, pruneVars, syncVars, storeVars,
                   idVars, options, config, steps, logs>>

\* const worktreeResult = await createWorktree(...)
OpenCreateWorktree ==
    /\ opc = "worktree"
    /\ \E success, alreadyExists \in BOOLEAN :
         /\ steps' = Append(steps, Step("createWorktree", success))
         /\ IF ~success
            THEN /\ OpenReturn(ErrResult("worktree_error"))
                 /\ UNCHANGED logs
            ELSE /\ logs' = Append(logs, Log(IF alreadyExists THEN "info"
                                             ELSE "success",
                                             "createWorktree"))
                 /\ opc' = "sync"
                 /\ UNCHANGED openResult
    /\ UNCHANGED <<tmuxVars, sessionVars, pruneVars, syncVars, storeVars,
                   idVars, options, config>>

\* Mutant: a migration that failed ends the command with an error.
OpenSyncWorkspace_Aborts ==
    /\ opc = "sync"
    /\ steps' = Append(steps, Step("syncWorkspaceState", FALSE))
    /\ logs' = Append(logs, Log("warn", "syncWorkspaceState"))
    /\ OpenReturn(ErrResult("worktree_error"))
    /\ UNCHANGED <<tmuxVars, sessionVars, pruneVars, syncVars, storeVars,
                   idVars, options, config>>

\* if ((config.ide?.name ?? "vscode") === "vscode" &&
\*     config.ide?.fork_workspace) { syncWorkspaceState(...) and its log }
OpenSyncWorkspace ==
    /\ opc = "sync"
    /\ IF /\ IsSome(config.ide)
          /\ Get(config.ide).name \in {Undefined, "vscode"}
          /\ Get(config.ide).fork_workspace
       THEN \E syncResult_ \in { SyncDone("main", "worktree"),
                                 SyncSkipped("main", "worktree"),
                                 SyncFailed(MainStorageNotFound) } :
              /\ steps' = Append(steps, Step("syncWorkspaceState",
                                             syncResult_.success))
              /\ logs' =
                   Append(logs,
                          Log(IF syncResult_.success /\ ~syncResult_.skipped
                              THEN "success"
                              ELSE IF syncResult_.skipped THEN "info"
                              ELSE "warn",
                              "syncWorkspaceState"))
       ELSE UNCHANGED <<steps, logs>>
    /\ opc' = "copy"
    /\ UNCHANGED <<tmuxVars, sessionVars, pruneVars, syncVars, storeVars,
                   idVars, options, config, openResult>>

\* if (config.copy && config.copy.length > 0) { copyEntries(...) }: each
\* file that cannot be copied is a failure in the results, not an error.
OpenCopyEntries ==
    /\ opc = "copy"
    /\ IF IsSome(config.copy) /\ Len(Get(config.copy)) > 0
       THEN \E copied \in BOOLEAN :
              /\ steps' = Append(steps, Step("copyEntries", copied))
              /\ logs' = Append(logs, Log("success", "copyEntries"))
       ELSE UNCHANGED <<steps, logs>>
    /\ opc' = "setup"
    /\ UNCHANGED <<tmuxVars, sessionVars, pruneVars, syncVars, storeVars,
                   idVars, options, config, openResult>>

\* if (config.setup && config.setup.length > 0) { runSetupCommands(...) },
\* which catches the failure of each command.
OpenRunSetup ==
    /\ opc = "setup"
    /\ IF IsSome(config.setup) /\ Len(Get(config.setup)) > 0
       THEN \E success \in BOOLEAN :
              /\ steps' = Append(steps, Step("runSetupCommands", success))
              /\ logs' = Append(logs, Log("success", "runSetupCommands"))
       ELSE UNCHANGED <<steps, logs>>
    /\ opc' = "tmux"
    /\ UNCHANGED <<tmuxVars, sessionVars, pruneVars, syncVars, storeVars,
                   idVars, options, config, openResult>>

\* if (config.tmux) { createSession(...) and its log }
OpenCreateSession ==
    /\ opc = "tmux"
    /\ IF config.tmux
       THEN \E tmuxResult \in { CreatedResult("app"),
                                AlreadyExistsResult("app"),
                                FailedResult("app", "exit code 1") } :
              /\ steps' = Append(steps, Step("createSession",
                                             tmuxResult.success))
              /\ logs' =
                   Append(logs,
                          Log(IF ~tmuxResult.success THEN "warn"
                              ELSE IF tmuxResult.alreadyExists THEN "info"
                              ELSE "success",
                              "createSession"))
       ELSE UNCHANGED <<steps, logs>>
    /\ opc' = "ide"
    /\ UNCHANGED <<tmuxVars, sessionVars, pruneVars, syncVars, storeVars,
                   idVars, options, config, openResult>>

\* if (config.ide?.command && !noIde) { openIDE(...) and its log }
OpenIde ==
    /\ opc = "ide"
    /\ IF /\ IsSome(config.ide)
          /\ Truthy(Get(config.ide).command)
          /\ ~options.noIde
       THEN \E success \in BOOLEAN :
              /\ steps' = Append(steps, Step("openIDE", success))
              /\ logs' = Append(logs, Log(IF success THEN "success"
                                          ELSE "warn", "openIDE"))
       ELSE UNCHANGED <<steps, logs>>
    /\ opc' = "switch"
    /\ UNCHANGED <<tmuxVars, sessionVars, pruneVars, syncVars, storeVars,
                   idVars, options, config, openResult>>

\* The end of openCommand: inside tmux the client is switched to the
\* session, outside the attach command is printed; return ok().
OpenFinish ==
    /\ opc = "switch"
    /\ \E inTmux, success \in BOOLEAN :
         IF config.tmux /\ inTmux
         THEN /\ steps' = Append(steps, Step("switchSession", success))
              /\ logs' = Append(logs, Log(IF success THEN "success"
                                          ELSE "warn", "switchSession"))
         ELSE UNCHANGED <<steps, logs>>
    /\ OpenReturn(OkResult)
    /\ UNCHANGED <<tmuxVars, sessionVars, pruneVars, syncVars, storeVars,
                   idVars, options, config>>

NextOpen ==
    \/ OpenPreflight
    \/ OpenCreateWorktree
    \/ OpenSyncWorkspace
    \/ OpenCopyEntries
    \/ OpenRunSetup
    \/ OpenCreateSession
    \/ OpenIde
    \/ OpenFinish

SpecOpen == InitOpen /\ [][NextOpen]_vars

(***************************************************************************)
(* Reading a run of openCommand.                                           *)
(***************************************************************************)
\* The positions in steps of the calls of a service.
CallsOf(name) == { k \in DOMAIN steps : steps[k].step = name }

\* The service was called and reported a failure.
StepFailed(name) == \E k \in CallsOf(name) : ~steps[k].success

\* The service was called after every call of another.
RanAfter(name, other) ==
    \E k \in CallsOf(name) : \A j \in CallsOf(other) : j < k

\* The warnings about a service.
Warnings(name) ==
    { k \in DOMAIN logs : logs[k] = Log("warn", name) }

\* What the configuration and the options ask for.
WantsCopy == IsSome(config.copy) /\ Get(config.copy) # <<>>
WantsSetup == IsSome(config.setup) /\ Get(config.setup) # <<>>
WantsIde ==
    /\ IsSome(config.ide)
    /\ Get(config.ide).command # Undefined
    /\ ~options.noIde

(***************************************************************************)
(* C23. A migration or a session that failed is logged as one warning      *)
(* about that step and ends the command with no error: when the command    *)
(* has returned it returned ok, and every later step the configuration     *)
(* asks for has run (after a failed migration the file copy, the setup     *)
(* commands, the session and the editor launch; after a failed session     *)
(* the editor launch, the file copy and the setup commands having run      *)
(* before it).                                                             *)
(***************************************************************************)
C23_StepFailuresDoNotAbort ==
    /\ \A name \in {"syncWorkspaceState", "createSession"} :
         StepFailed(name) =>
           /\ Cardinality(Warnings(name)) = 1
           /\ openResult \in {None, Some(OkResult)}
           /\ opc = "returned" => openResult = Some(OkResult)
    /\ (opc = "returned" /\ StepFailed("syncWorkspaceState")) =>
         /\ WantsCopy => RanAfter("copyEntries", "syncWorkspaceState")
         /\ WantsSetup => RanAfter("runSetupCommands", "syncWorkspaceState")
         /\ config.tmux => RanAfter("createSession", "syncWorkspaceState")
         /\ WantsIde => RanAfter("openIDE", "syncWorkspaceState")
    /\ (opc = "returned" /\ StepFailed("createSession")) =>
         /\ WantsCopy => CallsOf("copyEntries") # {}
         /\ WantsSetup => CallsOf("runSetupCommands") # {}
         /\ WantsIde => RanAfter("openIDE", "createSession")

\* A run with everything configured in which both the migration and the
\* session failed: it returned ok after the editor launch.
C23_Witness ==
    /\ opc = "returned"
    /\ openResult = Some(OkResult)
    /\ StepFailed("syncWorkspaceState")
    /\ StepFailed("createSession")
    /\ WantsCopy
    /\ WantsSetup
    /\ WantsIde
    /\ RanAfter("openIDE", "createSession")
    /\ RanAfter("copyEntries", "syncWorkspaceState")

====
